---- MODULE Spec2Model ----
(***************************************************************************)
(* Scribbo game server (src/server.py): the shared game state, the lock    *)
(* that guards it, and one handler thread per accepted connection.         *)
(*                                                                         *)
(* A handler thread is identified by the socket it serves.  Code that      *)
(* runs inside `with self.lock:` is one step (the lock is taken and        *)
(* released inside the step) unless the thread blocks inside the critical  *)
(* section; the reads of self.clients that the handlers make before        *)
(* taking the lock are steps of their own, so that another thread's        *)
(* disconnect_client can run between them.                                 *)
(*                                                                         *)
(* A handler that changes the game state and then calls                    *)
(* broadcast_message does both inside one `with self.lock:` block: the     *)
(* change is one step, which leaves the lock held, and the sends of the    *)
(* broadcast are the next step of the same thread.                         *)
(*                                                                         *)
(* Left out of the state: player names, peer addresses, the drawing        *)
(* points of drawing_data and the payload of delivered frames.  Left out   *)
(* of the behaviour: cleanup() of the main thread at shutdown and the      *)
(* RuntimeError of the unlocked broadcast of handle_drawing_data when      *)
(* self.clients changes size while it is iterated.                         *)
(***************************************************************************)
EXTENDS Integers, FiniteSets, Sequences, TLC

\* ------------------------------------------------------------------ bounds
\* The code's board is 8x8 (server.py:20, :176) and its player limit is 8
\* (server.py:117); the model scales the number of rows, the number of
\* columns and the player limit down.
BOARD_ROWS == 1
BOARD_COLS == 2
MAX_CLIENTS == 2
\* Connections open at the same time.  A socket index is used again for a
\* new connection once the old connection's thread has ended and no other
\* thread still refers to the old socket.
NumSockets == 2
\* Joins during one run: next_player_id never passes MaxJoins + 1.
MaxJoins == 2
\* Joins during one run of the connection lifecycle alone (joins and
\* disconnects, no drawing).
MaxLifecycleJoins == 3
\* The code's frame limit is 4096 bytes (MessageProtocol.MAX_MESSAGE_SIZE);
\* the model scales it down.
MAX_MESSAGE_SIZE == 3
\* Frames written to the stream during one run.
MaxFrames == 2
\* Threads of one client program that make requests.
NumCallers == 2
\* Requests one client program makes during one run.
MaxTokens == 2
\* The last instant of the clock.
MaxTime == 3
\* Broadcasts one client receives during one run.
MaxBroadcasts == 1
\* The largest coverage percentage.
MaxCoverage == 100
\* Calls of start_drawing_in_square and finish_drawing one client makes.
MaxCalls == 4

\* ------------------------------------------------------- program constants
\* len(self.player_colors), server.py:27
NUM_COLORS == 8
\* coverage_percentage >= 50.0, server.py:256
CAPTURE_THRESHOLD == 50

None == 0

Sockets == 1..NumSockets
PlayerIds == 1..(MaxJoins + 1)
Rows == 0..(BOARD_ROWS - 1)
Cols == 0..(BOARD_COLS - 1)
Cells == Rows \X Cols
\* Coordinates a request can carry: the valid ones and, for each of the four
\* bounds of the range test, one pair that breaks it.
InvalidCells == {<<0 - 1, 0>>, <<BOARD_ROWS, 0>>, <<0, 0 - 1>>, <<0, BOARD_COLS>>}
ReqCells == Cells \cup InvalidCells
\* drawing_data and finish_drawing do not validate the coordinates: one pair
\* outside the board stands for all of them.
UncheckedReqCells == Cells \cup {<<0, BOARD_COLS>>}
\* Coverage values a finish_drawing request can carry.
Coverages == {49, 50, 75}
\* Stands for a coverage field that is not a number (a string, null):
\* `coverage_percentage >= 50.0` raises TypeError for it.
NotANumber == 0 - 1
\* message.get('request_id') when the request has no such field
NoToken == "<none>"
\* Values of a request's request_id: none, the empty token, a token.
RequestIds == {NoToken, "", "r1"}
\* The connections whose client tags its requests with a request_id; the
\* requests on the other connections have none.
TaggingSockets == {1}
\* The request_id values a request on connection s can carry.
RequestIdsOf(s) == IF s \in TaggingSockets THEN RequestIds ELSE {NoToken}

VARIABLES
    clients,         \* self.clients: socket -> player_id of its client info
    board,           \* game_state['board']: cell -> None or owner id
    active_squares,  \* game_state['active_squares']: cell -> player id
    players,         \* game_state['players']: id -> [color, score]
    game_started,    \* game_state['game_started']
    game_ended,      \* game_state['game_ended']
    winner,          \* game_state['winner']
    next_player_id,  \* self.next_player_id
    lock,            \* self.lock: None, or the thread that holds it
    pc,              \* per handler thread: where it stands in handle_client
    req,             \* per handler thread: the request it is processing
    player_id,       \* per handler thread: local player_id of the handler
    resp,            \* per handler thread: the response it built
    todo,            \* per handler thread: disconnected_clients of broadcast_message
    dtarget,         \* per handler thread: argument of its disconnect_client call
    closed,          \* per socket: the server has called close() on it
    join_log,        \* history: the ids handed out by handle_join, in order
    request_id,      \* per handler thread: request_id of process_message
    resp_request_id, \* per handler thread: response['request_id']
    state_dict       \* history, per handler thread: the board and the players
                     \* at the instant its response called get_game_state_dict

\* The framed transport (src/utils.py): one direction of one connection,
\* with send_message_frame at one end and recv_message_frame at the other.
VARIABLES
    stream,          \* the bytes written to the socket and not yet received
    in_flight,       \* history: what wrote each frame that is not yet
                     \* received: the message of send_message_frame, or RawFrame
    message_dict,    \* send_message_frame: its argument at the last call
    send_result,     \* send_message_frame: "none", "sent" or "raised"
    frames,          \* history: the number of frames written so far
    rpc,             \* recv_message_frame: where the call stands
    raw_len,         \* recv_message_frame: raw_len
    msg_len,         \* recv_message_frame: msg_len
    data,            \* recv_message_frame: data
    recv_result      \* recv_message_frame: what the last call returned

server_vars == <<clients, board, active_squares, players, game_started,
                 game_ended, winner, next_player_id, lock, pc, req, player_id,
                 resp, todo, dtarget, closed, join_log, request_id,
                 resp_request_id, state_dict>>

transport_vars == <<stream, in_flight, message_dict, send_result, frames, rpc,
                    raw_len, msg_len, data, recv_result>>

\* One client program (src/client.py): the fields of ScribboClient, the
\* locals of each call of send_message_and_wait_response, the clock, and the
\* two directions of its connection.
VARIABLES
    connected,         \* self.connected
    pending_requests,  \* self.pending_requests: request_id -> (message, timestamp)
    response_queue,    \* self.response_queue
    issued,            \* history: the values uuid4 has returned
    recorded,          \* history: the request_ids put into pending_requests
    now,               \* time.time()
    wire,              \* the requests sent to the server
    inbox,             \* the messages of the server not yet received
    server_sent,       \* history: the messages the server has sent
    broadcasts,        \* history: the calls of handle_broadcast_message
    cpc,               \* per caller: where its call stands
    message,           \* per caller: message
    original,          \* history: message as it was passed in
    call_request_id,   \* per caller: request_id
    timeout,           \* per caller: timeout
    start_time,        \* per caller: start_time
    returned           \* per caller: what the call returned

client_vars == <<connected, pending_requests, response_queue, issued, recorded,
                 now, wire, inbox, server_sent, broadcasts, cpc, message,
                 original, call_request_id, timeout, start_time, returned>>

\* The capture decision as a function of the coverage: the helper of the
\* protocol module and the test of the server's handle_finish_drawing.
VARIABLES
    cov,               \* the coverage percentage both are given
    protocol_capture,  \* what MessageProtocol.is_successful_capture returned
    server_capture     \* what `coverage_percentage >= 50.0` gave

capture_vars == <<cov, protocol_capture, server_capture>>

\* The drawing state of one client program (src/client.py) and its
\* connection to the server: the requests it has sent that the server has
\* not yet processed, and the responses the server has sent that the client
\* has not yet received.
VARIABLES
    drawing_active,    \* self.drawing_active
    current_square,    \* self.current_square
    draw_call,         \* the call of start_drawing_in_square or finish_drawing
                       \* that waits in send_message_and_wait_response
    draw_requests,     \* the requests on their way to the server
    draw_responses,    \* the responses on their way to the client
    draw_calls         \* the number of calls made so far

drawing_vars == <<drawing_active, current_square, draw_call, draw_requests,
                  draw_responses, draw_calls>>

\* The server of the GUI variant (src/server_gui.py) with its squares
\* (src/square.py) and its Player objects (src/player.py).
VARIABLES
    square_lock,       \* per square: Square.lock is held
    is_taken,          \* per square: Square.is_taken
    gui_players,       \* the sockets in self.players
    gui_current,       \* per socket: Player.current_square
    gui_result,        \* per socket: what the last Player.start_drawing returned
    gui_sent,          \* per socket: the square_lock_on frames sent to it
    gui_alive          \* per socket: its handle_client thread is running

gui_vars == <<square_lock, is_taken, gui_players, gui_current, gui_result,
              gui_sent, gui_alive>>

\* What the steps of the server, of the transport, of the client and of the
\* capture decision leave alone.
outside_server == <<transport_vars, client_vars, capture_vars, drawing_vars,
                    gui_vars>>
outside_transport == <<server_vars, client_vars, capture_vars, drawing_vars,
                       gui_vars>>
outside_client == <<server_vars, transport_vars, capture_vars, drawing_vars,
                    gui_vars>>
outside_capture == <<server_vars, transport_vars, client_vars, drawing_vars,
                     gui_vars>>
outside_gui == <<server_vars, transport_vars, client_vars, capture_vars,
                 drawing_vars>>

vars == <<server_vars, transport_vars, client_vars, capture_vars,
          drawing_vars, gui_vars>>

\* What process_message keeps per thread.
corr == <<request_id, resp_request_id>>

game_state == <<board, active_squares, players, game_started, game_ended, winner>>
server_state == <<clients, board, active_squares, players, game_started,
                  game_ended, winner, next_player_id>>

\* ----------------------------------------------------------------- helpers
\* d[k] = v on a dict
Put(d, k, v) == [x \in (DOMAIN d) \cup {k} |-> IF x = k THEN v ELSE d[x]]
\* del d[k]
Del(d, k) == [x \in (DOMAIN d) \ {k} |-> d[x]]

NoReq == [type |-> "none", cell |-> <<0, 0>>, coverage |-> 0]

\* not (0 <= row < 8) or not (0 <= col < 8), negated
validate_coordinates(cell) ==
    /\ 0 <= cell[1] /\ cell[1] < BOARD_ROWS
    /\ 0 <= cell[2] /\ cell[2] < BOARD_COLS

\* ------------------------------------------------- framed transport: data
\* Bytes of an encoded message: ArrayByte opens a JSON array, the bytes of
\* ItemBytes are its items; any other byte makes the payload invalid JSON.
ArrayByte == 3
ItemBytes == {1, 2}
InvalidByte == 0

\* The sequences over S of length 0..n.
SeqsUpTo(S, n) == UNION {[1..k -> S] : k \in 0..n}

Min(a, b) == IF a < b THEN a ELSE b

\* The messages send_message_frame is called with: a Python list or a Python
\* tuple of items, of every encoded length up to one byte over the limit.
Messages ==
    [kind : {"list", "tuple"}, items : SeqsUpTo(ItemBytes, MAX_MESSAGE_SIZE)]

\* No message: before the first call.
NoMessage == [kind |-> "none", items |-> <<>>]
\* The None that recv_message_frame returns.
NoneResult == [kind |-> "None", items |-> <<>>]
\* In in_flight: a frame that was not written by send_message_frame.
RawFrame == [kind |-> "raw", items |-> <<>>]

\* json.dumps(message_dict).encode('utf-8'): a list and a tuple are both
\* written as a JSON array.
dumps(m) == <<ArrayByte>> \o m.items

\* json.loads accepts the payload
valid_json(d) ==
    /\ Len(d) >= 1
    /\ d[1] = ArrayByte
    /\ \A i \in 2..Len(d) : d[i] \in ItemBytes

\* json.loads(data.decode('utf-8')): a JSON array is read as a Python list.
loads(d) == [kind |-> "list", items |-> SubSeq(d, 2, Len(d))]

\* struct.pack('!I', n): 4 bytes, big-endian
pack(n) ==
    <<(n \div 16777216) % 256, (n \div 65536) % 256, (n \div 256) % 256, n % 256>>

\* struct.unpack('!I', raw_len)[0]
unpack(b) == b[1] * 16777216 + b[2] * 65536 + b[3] * 256 + b[4]

\* Mutant of send_too_large: a payload of exactly the limit is refused.
send_too_large_at_limit(n) == n >= MAX_MESSAGE_SIZE

\* len(data) > MessageProtocol.MAX_MESSAGE_SIZE in send_message_frame
send_too_large(n) == n > MAX_MESSAGE_SIZE

\* msg_len > MessageProtocol.MAX_MESSAGE_SIZE in recv_message_frame
recv_too_large(n) == n > MAX_MESSAGE_SIZE

\* Frames a peer can write without send_message_frame: two whose length
\* prefix is over the limit, one whose payload is not JSON.
RawFrames ==
    {pack(MAX_MESSAGE_SIZE + 1) \o <<ArrayByte>>,
     pack(256) \o <<ArrayByte>>,
     pack(1) \o <<InvalidByte>>}

TransportInit ==
    /\ stream = <<>>
    /\ in_flight = <<>>
    /\ message_dict = NoMessage
    /\ send_result = "none"
    /\ frames = 0
    /\ rpc = "idle"
    /\ raw_len = <<>>
    /\ msg_len = 0
    /\ data = <<>>
    /\ recv_result = NoMessage

\* ------------------------------------------------ client: data (client.py)
\* The threads of the client program that call
\* send_message_and_wait_response.
Callers == 1..NumCallers

\* The values uuid.uuid4() can return.
Tokens == 1..MaxTokens

\* The clock, in units of half the staleness window.
Times == 0..MaxTime

\* self.request_timeout = 10.0, in units of the clock
request_timeout == 2

\* The timeout argument of send_message_and_wait_response: shorter than the
\* staleness window (the default 5.0), equal to it (None), longer than it.
Timeouts == {1, request_timeout, request_timeout + 2}

\* Request dictionaries as the callers build them, without a request_id.
Requests == [type : {"get_game_state"}, request_id : {None}]

\* No dictionary, and the None that is returned on failure.
NoDict == [type |-> "none", request_id |-> None]
NoneDict == [type |-> "None", request_id |-> None]

\* The types of the responses the server gives to the requests.
ResponseTypes == {"game_state"}

\* str(uuid.uuid4()): a value that has not been returned before (a collision
\* is taken to be impossible).
uuid4 == Tokens \ issued

\* The entries older than the staleness window at time t.
expired_requests(t) ==
    {r \in DOMAIN pending_requests : t - pending_requests[r].timestamp > request_timeout}

\* The message returned when the queue is empty (line 152).
assumed_success(r) == [type |-> "success", request_id |-> r]

ClientInit ==
    /\ connected = TRUE
    /\ pending_requests = <<>>
    /\ response_queue = <<>>
    /\ issued = {}
    /\ recorded = {}
    /\ now = 0
    /\ wire = {}
    /\ inbox = <<>>
    /\ server_sent = {}
    /\ broadcasts = 0
    /\ cpc = [c \in Callers |-> "idle"]
    /\ message = [c \in Callers |-> NoDict]
    /\ original = [c \in Callers |-> NoDict]
    /\ call_request_id = [c \in Callers |-> None]
    /\ timeout = [c \in Callers |-> 0]
    /\ start_time = [c \in Callers |-> 0]
    /\ returned = [c \in Callers |-> NoDict]

\* The responses that carry the game state.
StateResponses == {"game_state", "join_success"}

\* No game state: the response of the thread carries none.
NoState == [board |-> <<>>, players |-> <<>>]

\* get_game_state_dict(): 'active_squares' is a new dictionary and the three
\* flags are values, so these four entries stay as they are at the call;
\* 'board' and 'players' are the objects of self.game_state themselves, and
\* this is what they hold at the call.
get_game_state_dict == [board |-> board, players |-> players]

\* What json.dumps(response) writes for 'board' and 'players' when
\* handle_client sends the response (line 78): the two objects as they are
\* then.
serialised == [board |-> board, players |-> players]

\* The step of thread s that ends with a response that carries the game
\* state is the one that calls get_game_state_dict.
state_copy(s) ==
    state_dict' =
        [state_dict EXCEPT ![s] =
            IF pc'[s] = "respond" /\ resp'[s] \in StateResponses
            THEN get_game_state_dict
            ELSE NoState]

ServerInit ==
    /\ clients = <<>>
    /\ board = [c \in Cells |-> None]
    /\ active_squares = <<>>
    /\ players = <<>>
    /\ game_started = FALSE
    /\ game_ended = FALSE
    /\ winner = None
    /\ next_player_id = 1
    /\ lock = None
    /\ pc = [s \in Sockets |-> "unaccepted"]
    /\ req = [s \in Sockets |-> NoReq]
    /\ player_id = [s \in Sockets |-> None]
    /\ resp = [s \in Sockets |-> "none"]
    /\ todo = [s \in Sockets |-> {}]
    /\ dtarget = [s \in Sockets |-> None]
    /\ closed = [s \in Sockets |-> FALSE]
    /\ join_log = <<>>
    /\ request_id = [s \in Sockets |-> NoToken]
    /\ resp_request_id = [s \in Sockets |-> NoToken]
    /\ state_dict = [s \in Sockets |-> NoState]

\* The coverage percentages 0..100.
CoveragePercentages == 0..MaxCoverage

\* MessageProtocol.MIN_COVERAGE_PERCENTAGE = 0.2, in tenths
MIN_COVERAGE_PERCENTAGE_TENTHS == 2

\* MessageProtocol.is_successful_capture(coverage):
\* coverage >= MessageProtocol.MIN_COVERAGE_PERCENTAGE, with both sides of
\* the comparison in tenths.
is_successful_capture(coverage) == 10 * coverage >= MIN_COVERAGE_PERCENTAGE_TENTHS

\* A Python bool as a string; "none" stands for no value yet.
Bool(b) == IF b THEN "True" ELSE "False"

\* No coverage has been given.
CaptureIdle ==
    /\ cov = 0
    /\ protocol_capture = "none"
    /\ server_capture = "none"

\* self.current_square = None; Player.current_square = None
NoSquare == <<>>

\* No call is waiting for a response.
NoCall == [op |-> "none", cell |-> NoSquare, id |-> 0]

\* ScribboClient.__init__: the client is not drawing; nothing is in flight.
DrawingIdle ==
    /\ drawing_active = FALSE
    /\ current_square = NoSquare
    /\ draw_call = NoCall
    /\ draw_requests = <<>>
    /\ draw_responses = <<>>
    /\ draw_calls = 0

\* GameBoard.__init__: self.COLS = 2, self.ROWS = 2
GUI_COLS == 2
GUI_ROWS == 2

\* MessageProtocol.BOARD_SIZE
BOARD_SIZE == 8

\* GameBoard.squares, each named by its (row, col)
GuiSquares == (0..(GUI_ROWS - 1)) \X (0..(GUI_COLS - 1))

\* ScribboServer_GUI.__init__, GameBoard.__init__ and Square.__init__: no
\* connection is accepted, no player is registered, every square is free
\* and not taken.
GuiIdle ==
    /\ square_lock = [q \in GuiSquares |-> FALSE]
    /\ is_taken = [q \in GuiSquares |-> FALSE]
    /\ gui_players = {}
    /\ gui_current = [p \in Sockets |-> NoSquare]
    /\ gui_result = [p \in Sockets |-> "none"]
    /\ gui_sent = [p \in Sockets |-> FALSE]
    /\ gui_alive = [p \in Sockets |-> "unaccepted"]

Init ==
    /\ ServerInit /\ TransportInit /\ ClientInit /\ CaptureIdle
    /\ DrawingIdle /\ GuiIdle

\* ------------------------------------------------------------ transport
\* send_message_frame raises on a socket the server has closed.  On any
\* other socket it may raise too: the connection may have failed, or the
\* encoded frame may be longer than MAX_MESSAGE_SIZE.
MustFail(targets) == {t \in targets : closed[t]}

\* process_message, lines 108-110: `if response and request_id:` copies the
\* request's request_id into the response; None and the empty string are
\* false in Python, and every response is a non-empty dict.
response_request_id(rid) == IF rid # NoToken /\ rid # "" THEN rid ELSE NoToken

\* The handler returns `response`; process_message adds the request_id and
\* handle_client sends the response next.  The handler's locals are dead
\* from here on.  Nothing before this point depends on the request's
\* request_id, which is drawn here.
Return(s, response) ==
    /\ pc' = [pc EXCEPT ![s] = "respond"]
    /\ resp' = [resp EXCEPT ![s] = response]
    /\ req' = [req EXCEPT ![s] = NoReq]
    /\ player_id' = [player_id EXCEPT ![s] = None]
    /\ \E rid \in RequestIdsOf(s) :
          /\ request_id' = [request_id EXCEPT ![s] = rid]
          /\ resp_request_id' =
                 [resp_request_id EXCEPT ![s] = response_request_id(rid)]

\* The request raised inside process_message: handle_client's inner except
\* prints it and the loop goes on to the next recv; nothing is sent.
Raise(s) ==
    /\ pc' = [pc EXCEPT ![s] = "recv"]
    /\ resp' = [resp EXCEPT ![s] = "none"]
    /\ req' = [req EXCEPT ![s] = NoReq]
    /\ player_id' = [player_id EXCEPT ![s] = None]
    /\ UNCHANGED <<request_id, resp_request_id>>

\* Mutant of lock_while_broadcasting: the with block ends before the call
\* of broadcast_message.
lock_released_before_broadcast(s) == None

\* The holder of self.lock while thread s is in a broadcast_message that its
\* handler calls inside `with self.lock:`.
lock_while_broadcasting(s) == s

\* The handler of thread s has changed the state inside `with self.lock:`
\* and calls broadcast_message next, still inside the block; `response` is
\* what it returns after the broadcast.
broadcast_locked(s, response) ==
    /\ lock' = lock_while_broadcasting(s)
    /\ pc' = [pc EXCEPT ![s] = "broadcast"]
    /\ resp' = [resp EXCEPT ![s] = response]
    /\ req' = [req EXCEPT ![s] = NoReq]
    /\ player_id' = [player_id EXCEPT ![s] = None]
    /\ UNCHANGED <<request_id, resp_request_id>>

\* The `exclude` argument of the broadcast that precedes `response`:
\* handle_join and handle_start_drawing exclude the requester's socket,
\* handle_finish_drawing excludes nobody.
broadcast_exclude(s, response) ==
    IF response \in {"join_success", "start_drawing_success"} THEN s ELSE None

\* broadcast_message: `for client_socket in self.clients: if client_socket
\* != exclude:` -- the sockets send_message_frame is called for.
broadcast_targets(exclude) == {c \in DOMAIN clients : c # exclude}

\* broadcast_message inside the handler's `with self.lock:` block.  Every
\* target is sent to, whether or not an earlier send failed.  Then
\* disconnect_client is called for the first peer a send failed for: it
\* finds the peer in self.clients and waits for self.lock, which the thread
\* holds itself (threading.Lock is not reentrant), so the thread never goes
\* on, the lock is never released and no peer of the list is cleaned up.
\* Without a failure the block ends and the handler returns.
broadcast_message(s) ==
    /\ pc[s] = "broadcast"
    /\ UNCHANGED outside_server
    /\ LET targets == broadcast_targets(broadcast_exclude(s, resp[s]))
       IN  \E failed \in SUBSET targets :
              /\ MustFail(targets) \subseteq failed
              /\ IF failed # {}
                 THEN /\ pc' = [pc EXCEPT ![s] = "blocked"]
                      /\ todo' = [todo EXCEPT ![s] = failed]
                      /\ UNCHANGED <<lock, resp, req, player_id, request_id,
                                     resp_request_id>>
                 ELSE /\ lock' = None
                      /\ Return(s, resp[s])
                      /\ UNCHANGED todo
    /\ UNCHANGED <<server_state, dtarget, closed, join_log>>
    /\ state_copy(s)

\* ------------------------------------------------------------ lifecycle
\* start_server: accept() and the start of the connection's handler thread.
Accept(s) ==
    /\ pc[s] \in {"unaccepted", "done"}
    /\ UNCHANGED outside_server
    /\ s \notin DOMAIN clients
    /\ \A t \in Sockets : dtarget[t] # s /\ s \notin todo[t]
    /\ pc' = [pc EXCEPT ![s] = "recv"]
    /\ closed' = [closed EXCEPT ![s] = FALSE]
    /\ UNCHANGED <<server_state, lock, req, player_id, resp, todo, dtarget,
                   join_log, corr>>
    /\ state_copy(s)

\* recv_message_frame returns None (the peer closed, or the header is
\* incomplete) or raises for a transport reason (connection reset, oversize
\* frame, socket closed by another thread): handle_client leaves its loop
\* and its finally clause calls disconnect_client(client_socket).
RecvFail(s) ==
    /\ pc[s] = "recv"
    /\ UNCHANGED outside_server
    /\ pc' = [pc EXCEPT ![s] = "disc_check"]
    /\ dtarget' = [dtarget EXCEPT ![s] = s]
    /\ UNCHANGED <<server_state, lock, req, player_id, resp, todo, closed,
                   join_log, corr>>
    /\ state_copy(s)

\* A whole frame arrives whose payload is not JSON: json.loads raises and
\* recv_message_frame raises ValueError("Invalid JSON data received") out
\* of the while loop of handle_client, into its outer except clause.
RecvMalformed(s) ==
    /\ pc[s] = "recv"
    /\ UNCHANGED outside_server
    /\ ~closed[s]
    /\ pc' = [pc EXCEPT ![s] = "malformed"]
    /\ UNCHANGED <<server_state, lock, req, player_id, resp, todo, dtarget,
                   closed, join_log, corr>>
    /\ state_copy(s)

\* handle_client's outer except clause prints the error of the malformed
\* frame; the finally clause calls disconnect_client(client_socket).
handle_client_except(s) ==
    /\ pc[s] = "malformed"
    /\ UNCHANGED outside_server
    /\ pc' = [pc EXCEPT ![s] = "disc_check"]
    /\ dtarget' = [dtarget EXCEPT ![s] = s]
    /\ UNCHANGED <<server_state, lock, req, player_id, resp, todo, closed,
                   join_log, corr>>
    /\ state_copy(s)

\* send_message_frame(client_socket, response) in handle_client.  A failing
\* send raises inside the inner try: the loop goes on either way.
Respond(s) ==
    /\ pc[s] = "respond"
    /\ UNCHANGED outside_server
    /\ pc' = [pc EXCEPT ![s] = "recv"]
    /\ resp' = [resp EXCEPT ![s] = "none"]
    /\ request_id' = [request_id EXCEPT ![s] = NoToken]
    /\ resp_request_id' = [resp_request_id EXCEPT ![s] = NoToken]
    /\ UNCHANGED <<server_state, lock, req, player_id, todo, dtarget, closed,
                   join_log>>
    /\ state_copy(s)

\* ------------------------------------------------------------------ join
\* Mutant of GameFull: the limit test is off by one.
GameFull_off_by_one == Cardinality(DOMAIN clients) > MAX_CLIENTS

\* len(self.clients) >= 8
GameFull == Cardinality(DOMAIN clients) >= MAX_CLIENTS

\* Mutant of GameEnded: handle_join does not look at the flag.
GameEnded_ignored == FALSE

\* if self.game_state['game_ended'] in handle_join
GameEnded == game_ended

\* Mutant of NewPlayerId: the id is taken from the number of connections.
NewPlayerId_from_count == Cardinality(DOMAIN clients) + 1

\* player_id = self.next_player_id
NewPlayerId == next_player_id

\* index into self.player_colors: len(self.clients) % len(self.player_colors)
JoinColor == Cardinality(DOMAIN clients) % NUM_COLORS

\* A frame of type 'join' arrives; process_message dispatches to handle_join,
\* which waits for the lock.  No more than `limit` joins arrive in one run.
join_arrives(s, limit) ==
    /\ pc[s] = "recv"
    /\ UNCHANGED outside_server
    /\ ~closed[s]
    /\ next_player_id + Cardinality({t \in Sockets : pc[t] = "join"}) <= limit
    /\ pc' = [pc EXCEPT ![s] = "join"]
    /\ req' = [req EXCEPT ![s] = [NoReq EXCEPT !.type = "join"]]
    /\ UNCHANGED <<server_state, lock, player_id, resp, todo, dtarget, closed,
                   join_log, corr>>
    /\ state_copy(s)

RecvJoin(s) == join_arrives(s, MaxJoins)

RecvJoinLifecycle(s) == join_arrives(s, MaxLifecycleJoins)

handle_join(s) ==
    /\ pc[s] = "join"
    /\ UNCHANGED outside_server
    /\ lock = None
    /\ UNCHANGED <<board, active_squares, game_ended, winner, todo, dtarget,
                   closed>>
    /\ IF GameFull
       THEN /\ Return(s, "Game is full")
            /\ UNCHANGED <<clients, players, game_started, next_player_id,
                           lock, join_log>>
       ELSE IF GameEnded
       THEN /\ Return(s, "Game has ended")
            /\ UNCHANGED <<clients, players, game_started, next_player_id,
                           lock, join_log>>
       ELSE LET pid == NewPlayerId
                clients1 == Put(clients, s, pid)
            IN  /\ clients' = clients1
                /\ players' = Put(players, pid, [color |-> JoinColor, score |-> 0])
                /\ next_player_id' = next_player_id + 1
                /\ join_log' = Append(join_log, pid)
                /\ game_started' = IF Cardinality(DOMAIN clients1) = 1
                                   THEN TRUE ELSE game_started
                /\ broadcast_locked(s, "join_success")
    /\ state_copy(s)

\* ------------------------------------------- requests of a joined client
\* A frame of type start_drawing, drawing_data or finish_drawing arrives and
\* the handler makes its first, unlocked test `client_socket not in
\* self.clients`.
RecvGameRequest(s, type) ==
    /\ pc[s] = "recv"
    /\ UNCHANGED outside_server
    /\ ~closed[s]
    /\ IF s \notin DOMAIN clients
       THEN Return(s, "Not connected")
       ELSE /\ pc' = [pc EXCEPT ![s] = "read_player_id"]
            /\ req' = [req EXCEPT ![s] = [NoReq EXCEPT !.type = type]]
            /\ UNCHANGED <<resp, player_id, request_id, resp_request_id>>
    /\ UNCHANGED <<server_state, lock, todo, dtarget, closed, join_log>>
    /\ state_copy(s)

RecvStartDrawing(s) == RecvGameRequest(s, "start_drawing")

RecvDrawingData(s) == RecvGameRequest(s, "drawing_data")

RecvFinishDrawing(s) == RecvGameRequest(s, "finish_drawing")

\* The fields a request of the given type can carry; the handler reads them
\* with message.get right after player_id.
ReqFields(type) ==
    IF type = "start_drawing"
    THEN {[type |-> type, cell |-> c, coverage |-> 0] : c \in ReqCells}
    ELSE IF type = "drawing_data"
    THEN {[type |-> type, cell |-> c, coverage |-> 0] : c \in UncheckedReqCells}
    ELSE {[type |-> type, cell |-> c, coverage |-> v] :
             c \in UncheckedReqCells, v \in Coverages \cup {NotANumber}}

\* player_id = self.clients[client_socket]['player_id'], read without the
\* lock: a KeyError when another thread has removed the socket since the
\* test.  Then row, col and coverage are read from the message, and
\* handle_start_drawing validates the coordinates: its comparison
\* `0 <= row < 8` raises TypeError for a row or col that is not a number.
ReadPlayerId(s) ==
    /\ pc[s] = "read_player_id"
    /\ UNCHANGED outside_server
    /\ UNCHANGED <<server_state, lock, todo, dtarget, closed, join_log>>
    /\ IF s \notin DOMAIN clients
       THEN Raise(s)
       ELSE \/ \E r \in ReqFields(req[s].type) :
                  IF r.type = "start_drawing" /\ ~validate_coordinates(r.cell)
                  THEN Return(s, "Invalid square coordinates")
                  ELSE /\ player_id' = [player_id EXCEPT ![s] = clients[s]]
                       /\ req' = [req EXCEPT ![s] = r]
                       /\ pc' = [pc EXCEPT ![s] = "body"]
                       /\ UNCHANGED <<resp, request_id, resp_request_id>>
            \/ /\ req[s].type = "start_drawing"
               /\ Raise(s)
    /\ state_copy(s)

\* Mutant of SquareOwned: handle_start_drawing does not test the board.
SquareOwned_unchecked(cell) == FALSE

\* self.game_state['board'][row][col] is not None
SquareOwned(cell) == board[cell] # None

\* Mutant of LockedByOther: a square that is held is refused to its holder
\* too.
LockedByOther_any(cell, pid) == cell \in DOMAIN active_squares

\* Mutant of LockedByOther: handle_start_drawing does not test the holder.
LockedByOther_unchecked(cell, pid) == FALSE

\* (row, col) in active_squares and active_squares[(row, col)] != player_id
LockedByOther(cell, pid) ==
    /\ cell \in DOMAIN active_squares
    /\ active_squares[cell] # pid

\* Mutant of handle_start_drawing: the square is marked before the test of
\* its holder.
handle_start_drawing_marks_first(s) ==
    /\ pc[s] = "body"
    /\ UNCHANGED outside_server
    /\ req[s].type = "start_drawing"
    /\ lock = None
    /\ UNCHANGED <<clients, board, players, game_started, game_ended, winner,
                   next_player_id, todo, dtarget, closed, join_log>>
    /\ LET cell == req[s].cell
           pid == player_id[s]
       IN  IF SquareOwned(cell)
           THEN /\ Return(s, "Square is already owned")
                /\ UNCHANGED <<active_squares, lock>>
           ELSE IF LockedByOther(cell, pid)
           THEN /\ Return(s, "Square is currently being drawn on by another player")
                /\ active_squares' = Put(active_squares, cell, pid)
                /\ UNCHANGED lock
           ELSE /\ active_squares' = Put(active_squares, cell, pid)
                /\ broadcast_locked(s, "start_drawing_success")
    /\ state_copy(s)

handle_start_drawing(s) ==
    /\ pc[s] = "body"
    /\ UNCHANGED outside_server
    /\ req[s].type = "start_drawing"
    /\ lock = None
    /\ UNCHANGED <<clients, board, players, game_started, game_ended, winner,
                   next_player_id, todo, dtarget, closed, join_log>>
    /\ LET cell == req[s].cell
           pid == player_id[s]
       IN  IF SquareOwned(cell)
           THEN /\ Return(s, "Square is already owned")
                /\ UNCHANGED <<active_squares, lock>>
           ELSE IF LockedByOther(cell, pid)
           THEN /\ Return(s, "Square is currently being drawn on by another player")
                /\ UNCHANGED <<active_squares, lock>>
           ELSE /\ active_squares' = Put(active_squares, cell, pid)
                /\ broadcast_locked(s, "start_drawing_success")
    /\ state_copy(s)

\* The locked test of handle_drawing_data; on success the lock is released
\* and the broadcast follows outside it.
handle_drawing_data(s) ==
    /\ pc[s] = "body"
    /\ UNCHANGED outside_server
    /\ req[s].type = "drawing_data"
    /\ lock = None
    /\ UNCHANGED <<server_state, lock, todo, dtarget, closed, join_log>>
    /\ LET cell == req[s].cell
       IN  IF cell \notin DOMAIN active_squares
           THEN Return(s, "Square is not active for drawing")
           ELSE IF active_squares[cell] # player_id[s]
           THEN Return(s, "You are not authorized to draw in this square")
           ELSE /\ pc' = [pc EXCEPT ![s] = "drawing_update"]
                /\ req' = [req EXCEPT ![s] = NoReq]
                /\ player_id' = [player_id EXCEPT ![s] = None]
                /\ UNCHANGED <<resp, request_id, resp_request_id>>
    /\ state_copy(s)

\* ------------------------------------------------------------ disconnect
\* The loop `for client_socket in disconnected_clients:` of
\* broadcast_message when it runs outside the lock (handle_drawing_data),
\* and the handler's return after it.  The list is in dict order; the model
\* takes the remaining peers in any order.
next_disconnect(t, remaining) ==
    IF remaining = {}
    THEN /\ Return(t, "drawing_data_received")
         /\ todo' = [todo EXCEPT ![t] = {}]
         /\ dtarget' = [dtarget EXCEPT ![t] = None]
    ELSE \E f \in remaining :
            /\ dtarget' = [dtarget EXCEPT ![t] = f]
            /\ todo' = [todo EXCEPT ![t] = remaining \ {f}]
            /\ pc' = [pc EXCEPT ![t] = "disc_check"]
            /\ UNCHANGED <<resp, req, player_id, request_id, resp_request_id>>

\* client_socket.close() at the end of disconnect_client, and what the
\* calling thread does next: the handler of the socket itself is in the
\* finally clause of handle_client and ends; another thread is in
\* broadcast_message and goes on with its list.
close_and_continue(t) ==
    LET f == dtarget[t]
    IN  /\ closed' = [closed EXCEPT ![f] = TRUE]
        /\ IF f = t
           THEN /\ pc' = [pc EXCEPT ![t] = "done"]
                /\ dtarget' = [dtarget EXCEPT ![t] = None]
                /\ UNCHANGED <<resp, todo, req, player_id, request_id,
                               resp_request_id>>
           ELSE next_disconnect(t, todo[t])

\* disconnect_client: the unlocked test `if client_socket in self.clients`.
disconnect_check(t) ==
    /\ pc[t] = "disc_check"
    /\ UNCHANGED outside_server
    /\ UNCHANGED <<server_state, lock, join_log>>
    /\ IF dtarget[t] \in DOMAIN clients
       THEN /\ pc' = [pc EXCEPT ![t] = "disc_body"]
            /\ UNCHANGED <<resp, todo, dtarget, closed, req, player_id, corr>>
       ELSE close_and_continue(t)
    /\ state_copy(t)

\* squares_to_remove of disconnect_client
squares_to_remove(pid) ==
    {c \in DOMAIN active_squares : active_squares[c] = pid}

\* Mutant of active_after_disconnect: the leaver's squares stay locked.
active_after_disconnect_kept(pid) == active_squares

\* for square in squares_to_remove: del active_squares[square]
active_after_disconnect(pid) ==
    [c \in (DOMAIN active_squares) \ squares_to_remove(pid) |-> active_squares[c]]

\* disconnect_client: the body under the lock, up to the call of
\* broadcast_message, which is inside the with block.
\* self.clients[client_socket] raises KeyError when another thread removed
\* the socket after the test; the exception ends the handler thread of the
\* socket itself (it is in its finally clause) and is caught by
\* handle_client's inner except otherwise.  The board is not touched.
disconnect_client(t) ==
    /\ pc[t] = "disc_body"
    /\ UNCHANGED outside_server
    /\ lock = None
    /\ UNCHANGED <<board, game_started, game_ended, winner, next_player_id,
                   closed, join_log>>
    /\ LET f == dtarget[t]
       IN  IF f \notin DOMAIN clients
           THEN /\ UNCHANGED <<clients, active_squares, players, lock>>
                /\ todo' = [todo EXCEPT ![t] = {}]
                /\ dtarget' = [dtarget EXCEPT ![t] = None]
                /\ IF f = t
                   THEN /\ pc' = [pc EXCEPT ![t] = "done"]
                        /\ UNCHANGED <<resp, req, player_id, request_id,
                                       resp_request_id>>
                   ELSE Raise(t)
           ELSE LET pid == clients[f]
                IN  /\ active_squares' = active_after_disconnect(pid)
                    /\ players' = IF pid \in DOMAIN players
                                  THEN Del(players, pid) ELSE players
                    /\ clients' = Del(clients, f)
                    /\ lock' = lock_while_broadcasting(t)
                    /\ pc' = [pc EXCEPT ![t] = "disc_broadcast"]
                    /\ UNCHANGED <<req, player_id, todo, dtarget, resp,
                                   request_id, resp_request_id>>
    /\ state_copy(t)

\* The player_left broadcast of disconnect_client, inside its with block, to
\* every socket that is left in self.clients.  A failed send makes
\* broadcast_message call disconnect_client for that peer while the thread
\* holds the lock: the thread waits for its own lock for ever (see
\* broadcast_message above); todo then holds the list of this inner
\* broadcast.
disconnect_broadcast(t) ==
    /\ pc[t] = "disc_broadcast"
    /\ UNCHANGED outside_server
    /\ LET targets == broadcast_targets(None)
       IN  \E failed \in SUBSET targets :
              /\ MustFail(targets) \subseteq failed
              /\ IF failed # {}
                 THEN /\ pc' = [pc EXCEPT ![t] = "blocked"]
                      /\ todo' = [todo EXCEPT ![t] = failed]
                      /\ UNCHANGED lock
                 ELSE /\ pc' = [pc EXCEPT ![t] = "disc_close"]
                      /\ lock' = None
                      /\ UNCHANGED todo
    /\ UNCHANGED <<server_state, dtarget, closed, join_log, resp, req,
                   player_id, request_id, resp_request_id>>
    /\ state_copy(t)

disconnect_close(t) ==
    /\ pc[t] = "disc_close"
    /\ UNCHANGED outside_server
    /\ close_and_continue(t)
    /\ UNCHANGED <<server_state, lock, join_log>>
    /\ state_copy(t)

\* broadcast_message of handle_drawing_data, outside the lock: the sends,
\* then disconnect_client for every peer a send failed for.
drawing_update(s) ==
    /\ pc[s] = "drawing_update"
    /\ UNCHANGED outside_server
    /\ LET targets == broadcast_targets(s)
       IN  \E failed \in SUBSET targets :
              /\ MustFail(targets) \subseteq failed
              /\ next_disconnect(s, failed)
    /\ UNCHANGED <<server_state, lock, closed, join_log>>
    /\ state_copy(s)

\* --------------------------------------------------------- finish_drawing
\* Mutant of is_success: the comparison is strict.
is_success_strict(coverage) == coverage > CAPTURE_THRESHOLD

\* success = coverage_percentage >= 50.0
is_success(coverage) == coverage >= CAPTURE_THRESHOLD

\* Mutant of active_after_finish: the entry is never deleted.
active_after_finish_kept(cell, success) == active_squares

\* Mutant of active_after_finish: the entry is deleted on a capture only.
active_after_finish_on_capture(cell, success) ==
    IF success THEN Del(active_squares, cell) ELSE active_squares

\* del self.game_state['active_squares'][(row, col)], before the test of
\* the coverage
active_after_finish(cell, success) == Del(active_squares, cell)

\* Mutant of capture_board: the cell is not marked.
capture_board_unmarked(cell, pid) == board

\* self.game_state['board'][row][col] = player_id
capture_board(cell, pid) == [board EXCEPT ![cell] = pid]

\* Mutant of check_game_over: the game is never over.
check_game_over_never(b) == FALSE

\* Mutant of check_game_over: one captured cell is enough.
check_game_over_any(b) == \E row \in Rows : \E col \in Cols : b[<<row, col>>] # None

\* check_game_over, on the board b
check_game_over(b) == \A row \in Rows : \A col \in Cols : b[<<row, col>>] # None

max_score_of(ps) ==
    CHOOSE m \in {ps[p].score : p \in DOMAIN ps} :
        \A p \in DOMAIN ps : ps[p].score <= m

\* Mutant of calculate_winner: on a tie the first of the winners is returned.
calculate_winner_first(ps) ==
    IF DOMAIN ps = {}
    THEN <<None, 0>>
    ELSE LET max_score == max_score_of(ps)
             winners == {p \in DOMAIN ps : ps[p].score = max_score}
         IN  <<CHOOSE p \in winners : \A q \in winners : p <= q, max_score>>

\* ScribboServer.calculate_winner on the registry ps: <<winner id, max_score>>
calculate_winner(ps) ==
    IF DOMAIN ps = {}
    THEN <<None, 0>>
    ELSE LET max_score == max_score_of(ps)
             winners == {p \in DOMAIN ps : ps[p].score = max_score}
         IN  <<IF Cardinality(winners) = 1 THEN CHOOSE p \in winners : TRUE ELSE None,
               max_score>>

\* GameEngine.calculate_winner: <<single_winner, winners, max_score>>
engine_calculate_winner(ps) ==
    IF DOMAIN ps = {}
    THEN <<None, {}, 0>>
    ELSE LET max_score == max_score_of(ps)
             winners == {p \in DOMAIN ps : ps[p].score = max_score}
             single_winner == IF Cardinality(winners) = 1
                              THEN CHOOSE p \in winners : TRUE ELSE None
         IN  <<single_winner, winners, max_score>>

handle_finish_drawing(s) ==
    /\ pc[s] = "body"
    /\ UNCHANGED outside_server
    /\ req[s].type = "finish_drawing"
    /\ lock = None
    /\ UNCHANGED <<clients, game_started, next_player_id, todo, dtarget,
                   closed, join_log>>
    /\ LET cell == req[s].cell
           pid == player_id[s]
           success == is_success(req[s].coverage)
       IN  IF cell \notin DOMAIN active_squares
           THEN /\ Return(s, "Square is not active for drawing")
                /\ UNCHANGED <<board, active_squares, players, game_ended,
                               winner, lock>>
           ELSE IF active_squares[cell] # pid
           THEN /\ Return(s, "You are not authorized to finish drawing in this square")
                /\ UNCHANGED <<board, active_squares, players, game_ended,
                               winner, lock>>
           ELSE /\ active_squares' = active_after_finish(cell, success)
                /\ IF req[s].coverage = NotANumber
                   \* the comparison of line 256 raises TypeError after the
                   \* del of line 253; the with statement releases the lock
                   THEN /\ UNCHANGED <<board, players, game_ended, winner, lock>>
                        /\ Raise(s)
                   ELSE IF ~success
                   THEN /\ UNCHANGED <<board, players, game_ended, winner>>
                        /\ broadcast_locked(s, "square_failed")
                   ELSE IF pid \notin DOMAIN players
                   \* players[player_id]['score'] += 1 raises KeyError after
                   \* the cell was marked; the with statement releases the lock
                   THEN /\ board' = capture_board(cell, pid)
                        /\ UNCHANGED <<players, game_ended, winner, lock>>
                        /\ Raise(s)
                   ELSE LET board1 == capture_board(cell, pid)
                            players1 == [players EXCEPT ![pid].score = @ + 1]
                            game_over == check_game_over(board1)
                        IN  /\ board' = board1
                            /\ players' = players1
                            /\ game_ended' = IF game_over THEN TRUE ELSE game_ended
                            /\ winner' = IF game_over
                                         THEN calculate_winner(players1)[1]
                                         ELSE winner
                            /\ broadcast_locked(s, "square_captured")
    /\ state_copy(s)

\* ------------------------------------------------- requests without lock
\* handle_get_game_state reads the game state without the lock.
handle_get_game_state(s) ==
    /\ pc[s] = "recv"
    /\ UNCHANGED outside_server
    /\ ~closed[s]
    /\ Return(s, "game_state")
    /\ UNCHANGED <<server_state, lock, todo, dtarget, closed, join_log>>
    /\ state_copy(s)

\* process_message: any other message type
unknown_message(s) ==
    /\ pc[s] = "recv"
    /\ UNCHANGED outside_server
    /\ ~closed[s]
    /\ Return(s, "Unknown message type")
    /\ UNCHANGED <<server_state, lock, todo, dtarget, closed, join_log>>
    /\ state_copy(s)

\* ------------------------------------------------------------------ spec
Next ==
    \E s \in Sockets :
        \/ Accept(s)
        \/ RecvFail(s)
        \/ RecvMalformed(s)
        \/ handle_client_except(s)
        \/ Respond(s)
        \/ RecvJoin(s)
        \/ handle_join(s)
        \/ broadcast_message(s)
        \/ RecvStartDrawing(s)
        \/ RecvDrawingData(s)
        \/ RecvFinishDrawing(s)
        \/ ReadPlayerId(s)
        \/ handle_start_drawing(s)
        \/ handle_drawing_data(s)
        \/ drawing_update(s)
        \/ handle_finish_drawing(s)
        \/ handle_get_game_state(s)
        \/ unknown_message(s)
        \/ disconnect_check(s)
        \/ disconnect_client(s)
        \/ disconnect_broadcast(s)
        \/ disconnect_close(s)

Spec == Init /\ [][Next]_vars

\* ------------------------------------------------- connection lifecycle
\* The server after a finished game: player 1 joined, captured every cell,
\* which ended the game, and disconnected; its handler thread has ended.
GameOver ==
    /\ clients = <<>>
    /\ board = [c \in Cells |-> 1]
    /\ active_squares = <<>>
    /\ players = <<>>
    /\ game_started = TRUE
    /\ game_ended = TRUE
    /\ winner = 1
    /\ next_player_id = 2
    /\ lock = None
    /\ pc = [s \in Sockets |-> IF s = 1 THEN "done" ELSE "unaccepted"]
    /\ req = [s \in Sockets |-> NoReq]
    /\ player_id = [s \in Sockets |-> None]
    /\ resp = [s \in Sockets |-> "none"]
    /\ todo = [s \in Sockets |-> {}]
    /\ dtarget = [s \in Sockets |-> None]
    /\ closed = [s \in Sockets |-> s = 1]
    /\ join_log = <<1>>
    /\ request_id = [s \in Sockets |-> NoToken]
    /\ resp_request_id = [s \in Sockets |-> NoToken]
    /\ state_dict = [s \in Sockets |-> NoState]

\* The server as constructed, or after a finished game.
LifecycleInit ==
    /\ ServerInit \/ GameOver
    /\ TransportInit /\ ClientInit /\ CaptureIdle /\ DrawingIdle /\ GuiIdle

\* The connections' lifecycle: accept, join, the requests that need no
\* player, and disconnect.
LifecycleNext ==
    \E s \in Sockets :
        \/ Accept(s)
        \/ RecvFail(s)
        \/ RecvMalformed(s)
        \/ handle_client_except(s)
        \/ Respond(s)
        \/ RecvJoinLifecycle(s)
        \/ handle_join(s)
        \/ broadcast_message(s)
        \/ handle_get_game_state(s)
        \/ unknown_message(s)
        \/ disconnect_check(s)
        \/ disconnect_client(s)
        \/ disconnect_broadcast(s)
        \/ disconnect_close(s)

SpecLifecycle == LifecycleInit /\ [][LifecycleNext]_vars

\* ---------------------------------------------- framed transport: actions
\* send_message_frame(sock, message_dict): the size test comes before
\* sendall, which writes the prefix and the payload; any exception is raised
\* again as RuntimeError.
send_message_frame ==
    /\ frames < MaxFrames
    /\ frames' = frames + 1
    /\ \E m \in Messages :
          /\ message_dict' = m
          /\ IF send_too_large(Len(dumps(m)))
             THEN /\ send_result' = "raised"
                  /\ UNCHANGED <<stream, in_flight>>
             ELSE /\ send_result' = "sent"
                  /\ stream' = stream \o pack(Len(dumps(m))) \o dumps(m)
                  /\ in_flight' = Append(in_flight, m)
    /\ UNCHANGED <<rpc, raw_len, msg_len, data, recv_result, outside_transport>>

\* The peer writes a frame of its own making, without send_message_frame.
peer_write ==
    /\ frames < MaxFrames
    /\ frames' = frames + 1
    /\ \E f \in RawFrames : stream' = stream \o f
    /\ in_flight' = Append(in_flight, RawFrame)
    /\ message_dict' = NoMessage
    /\ send_result' = "none"
    /\ UNCHANGED <<rpc, raw_len, msg_len, data, recv_result, outside_transport>>

\* recv_message_frame, lines 23-31: raw_len = sock.recv(4) returns the bytes
\* that have arrived, at most 4 (the peer has not closed, so at least 1);
\* fewer than 4 bytes make the function return None; then the length is
\* decoded and tested.
recv_header ==
    /\ rpc = "idle"
    /\ stream # <<>>
    /\ \E k \in 1..Min(4, Len(stream)) :
          /\ raw_len' = SubSeq(stream, 1, k)
          /\ stream' = SubSeq(stream, k + 1, Len(stream))
          /\ data' = <<>>
          /\ IF k # 4
             THEN /\ rpc' = "returned"
                  /\ recv_result' = NoneResult
                  /\ msg_len' = 0
             ELSE /\ msg_len' = unpack(SubSeq(stream, 1, 4))
                  /\ recv_result' = NoMessage
                  /\ rpc' = IF recv_too_large(unpack(SubSeq(stream, 1, 4)))
                            THEN "raised" ELSE "payload"
    /\ UNCHANGED <<in_flight, message_dict, send_result, frames, outside_transport>>

\* recv_message_frame, lines 33-44: one turn of `while len(data) < msg_len`
\* with a packet of any size up to what is asked for, or, after the loop,
\* the decoding of the payload, which raises ValueError for invalid JSON.
recv_payload ==
    /\ rpc = "payload"
    /\ IF Len(data) < msg_len
       THEN /\ stream # <<>>
            /\ \E k \in 1..Min(msg_len - Len(data), Len(stream)) :
                  /\ data' = data \o SubSeq(stream, 1, k)
                  /\ stream' = SubSeq(stream, k + 1, Len(stream))
            /\ UNCHANGED <<rpc, recv_result>>
       ELSE /\ IF valid_json(data)
               THEN /\ rpc' = "returned"
                    /\ recv_result' = loads(data)
               ELSE /\ rpc' = "raised"
                    /\ recv_result' = NoMessage
            /\ UNCHANGED <<stream, data>>
    /\ UNCHANGED <<in_flight, message_dict, send_result, frames, raw_len,
                   msg_len, outside_transport>>

\* The caller got a message and calls recv_message_frame again (the loops of
\* handle_client and receive_messages); after None or an exception the
\* callers leave their loops.
recv_again ==
    /\ rpc = "returned"
    /\ recv_result # NoneResult
    /\ rpc' = "idle"
    /\ recv_result' = NoMessage
    /\ in_flight' = Tail(in_flight)
    /\ raw_len' = <<>>
    /\ msg_len' = 0
    /\ data' = <<>>
    /\ UNCHANGED <<stream, message_dict, send_result, frames, outside_transport>>

TransportNext ==
    \/ send_message_frame
    \/ peer_write
    \/ recv_header
    \/ recv_payload
    \/ recv_again

\* One direction of one connection, with the server at rest.
SpecTransport == Init /\ [][TransportNext]_vars



\* ---------------------------------------------------------------- claims
\* The 'message' of every response of type 'error'.
ErrorResponses ==
    {"Game is full", "Game has ended", "Not connected",
     "Invalid square coordinates", "Square is already owned",
     "Square is currently being drawn on by another player",
     "Square is not active for drawing",
     "You are not authorized to draw in this square",
     "You are not authorized to finish drawing in this square",
     "Unknown message type"}

\* Thread s takes the step that runs the locked body of its handler for a
\* request of the given type.
BodyStep(s, type) ==
    /\ pc[s] = "body"
    /\ req[s].type = type
    /\ pc'[s] # "body"

\* Thread s takes the step that runs the locked body of handle_join.
JoinStep(s) == pc[s] = "join" /\ pc'[s] # "join"

\* Some thread takes the step that runs the locked body of
\* disconnect_client for the connection of player pid.
DisconnectStepOf(pid) ==
    \E t \in Sockets :
        /\ pc[t] = "disc_body"
        /\ pc'[t] # "disc_body"
        /\ dtarget[t] \in DOMAIN clients
        /\ clients[dtarget[t]] = pid

\* C1, first part: a start_drawing on a square that another player holds is
\* answered with an error and leaves ActiveSquares as it is.
C1_RejectStep ==
    \A s \in Sockets :
        (/\ BodyStep(s, "start_drawing")
         /\ req[s].cell \in DOMAIN active_squares
         /\ active_squares[req[s].cell] # player_id[s])
        => /\ pc'[s] = "respond"
           /\ resp'[s] \in ErrorResponses
           /\ active_squares' = active_squares

\* C1, second part: an entry of ActiveSquares is removed only by the
\* holder's own finish_drawing on that square or by the disconnect of the
\* holder, and never passes to another player.
C1_HoldStep ==
    \A c \in DOMAIN active_squares :
        (c \notin DOMAIN active_squares' \/ active_squares'[c] # active_squares[c])
        => /\ c \notin DOMAIN active_squares'
           /\ \/ \E s \in Sockets :
                    /\ BodyStep(s, "finish_drawing")
                    /\ req[s].cell = c
                    /\ player_id[s] = active_squares[c]
              \/ DisconnectStepOf(active_squares[c])

\* C1: under any interleaving of the handlers a square has one holder: a
\* start_drawing by another player on a held square is rejected with an
\* error, and the entry stays the holder's until the holder's own
\* finish_drawing on it or the holder's disconnect.
C1_OneHolderUntilRelease == [][C1_RejectStep /\ C1_HoldStep]_vars

\* A handler is about to send the lock error while a square is held.
C1_Witness ==
    \E s \in Sockets :
        /\ pc[s] = "respond"
        /\ resp[s] = "Square is currently being drawn on by another player"
        /\ \E c \in DOMAIN active_squares :
              s \in DOMAIN clients /\ active_squares[c] # clients[s]

\* C2: a cell that holds a player id holds the same id in every later
\* state, whatever operation runs.
C2_OwnedCellsNeverChange ==
    [][\A c \in Cells : board[c] # None => board'[c] = board[c]]_vars

\* A start_drawing on an owned cell has just been refused and the owner of
\* a cell has left the registry.
C2_Witness ==
    /\ \E s \in Sockets : pc[s] = "respond" /\ resp[s] = "Square is already owned"
    /\ \E c \in Cells : board[c] # None /\ board[c] \notin DOMAIN players

\* C3: no key of ActiveSquares is an owned cell of the board.
C3_ActiveNotOwned ==
    \A c \in DOMAIN active_squares : c \in Cells /\ board[c] = None

\* A capture has just happened while another square is being drawn.
C3_Witness ==
    /\ \E s \in Sockets : pc[s] = "respond" /\ resp[s] = "square_captured"
    /\ \E c \in Cells : board[c] # None
    /\ active_squares # <<>>

\* C4: a finish_drawing by the holder of the square removes the square's
\* entry from ActiveSquares, whatever the coverage.
C4_FinishReleases ==
    [][\A s \in Sockets :
          (/\ BodyStep(s, "finish_drawing")
           /\ req[s].cell \in DOMAIN active_squares
           /\ active_squares[req[s].cell] = player_id[s])
          => req[s].cell \notin DOMAIN active_squares']_vars

\* A failed capture has just released the only held square.
C4_Witness ==
    /\ \E s \in Sockets : pc[s] = "respond" /\ resp[s] = "square_failed"
    /\ active_squares = <<>>
    /\ \A c \in Cells : board[c] = None

C6_EndedMeansFullAndStays ==
    /\ [](game_ended => \A c \in Cells : board[c] # None)
    /\ [][game_ended => game_ended']_vars

\* The game has ended and every player has left since.
C6_Witness == game_ended /\ players = <<>> /\ clients = <<>>

\* The player that alone holds the maximum score of the table ps, or None.
UniqueTopScorer(ps) ==
    LET top == {p \in DOMAIN ps :
                   \A q \in (DOMAIN ps) \ {p} : ps[q].score < ps[p].score}
    IN  IF top = {} THEN None ELSE CHOOSE p \in top : TRUE

\* The player-score tables over the model's ids with scores up to the
\* number of cells, the empty table included.
ScoreTables ==
    UNION {[D -> [color : {0}, score : 0..Cardinality(Cells)]] : D \in SUBSET PlayerIds}

\* The two calculate_winner functions give the same single winner, and the
\* same maximum, on every table of ScoreTables.
WinnersAgreeOnTables ==
    \A ps \in ScoreTables :
        /\ engine_calculate_winner(ps)[1] = calculate_winner(ps)[1]
        /\ engine_calculate_winner(ps)[3] = calculate_winner(ps)[2]
        /\ calculate_winner(ps)[1] = UniqueTopScorer(ps)

C9_IdsUniqueIncreasing ==
    /\ \A i \in 1..Len(join_log) : \A j \in 1..Len(join_log) :
          i < j => join_log[i] < join_log[j]
    /\ \A s \in DOMAIN clients : \A t \in DOMAIN clients :
          s # t => clients[s] # clients[t]
    /\ \A p \in DOMAIN players : \E i \in 1..Len(join_log) : join_log[i] = p

\* Three joins have happened and the first player has left the registry.
C9_Witness ==
    /\ Len(join_log) >= 3
    /\ join_log[1] \notin DOMAIN players
    /\ DOMAIN clients # {}

\* C10: no two connected players have the same colour.
C10_ColoursUnique ==
    \A s \in DOMAIN clients : \A t \in DOMAIN clients :
        (s # t /\ clients[s] \in DOMAIN players /\ clients[t] \in DOMAIN players)
        => players[clients[s]].color # players[clients[t]].color

\* The number of cells of the board that hold the id p.
cells_owned(p) == Cardinality({c \in Cells : board[c] = p})

\* C11: every player of the registry has a score equal to the number of
\* board cells that hold the player's id; a player enters the registry with
\* score 0 and a registered player's score never decreases.
C11_ScoreIsCellsOwned ==
    /\ [](\A p \in DOMAIN players : players[p].score = cells_owned(p))
    /\ [][\A p \in DOMAIN players' :
             IF p \in DOMAIN players
             THEN players'[p].score >= players[p].score
             ELSE players'[p].score = 0]_vars

\* One player has captured every cell and another player is registered
\* with score 0.
C11_Witness ==
    \E p \in DOMAIN players : \E q \in DOMAIN players :
        /\ players[p].score = Cardinality(Cells)
        /\ players[q].score = 0

\* C12: the cleanup of disconnect_client for player pid leaves no entry of
\* ActiveSquares held by pid, removes pid from the registry and leaves the
\* board as it is, so that every coordinate pid was holding is free and not
\* owned; and a start_drawing on a free, not owned coordinate gives the
\* coordinate to the requester.
C12_DisconnectCleanup ==
    /\ [][\A pid \in PlayerIds :
             DisconnectStepOf(pid) =>
               /\ \A c \in DOMAIN active_squares' : active_squares'[c] # pid
               /\ pid \notin DOMAIN players'
               /\ board' = board
               /\ \A c \in squares_to_remove(pid) :
                     c \notin DOMAIN active_squares' /\ board'[c] = None]_vars
    /\ [][\A s \in Sockets :
             (/\ BodyStep(s, "start_drawing")
              /\ req[s].cell \notin DOMAIN active_squares
              /\ board[req[s].cell] = None)
             => /\ req[s].cell \in DOMAIN active_squares'
                /\ active_squares'[req[s].cell] = player_id[s]
                /\ resp'[s] = "start_drawing_success"]_vars

\* The cleanup of a connection has just run: its player is gone, a cell that
\* player captured is still owned by the player's id, no square is held,
\* and another player's start_drawing is about to run.
C12_Witness ==
    \E t \in Sockets : \E s \in Sockets :
        /\ pc[t] = "disc_broadcast"
        /\ dtarget[t] \notin DOMAIN clients
        /\ active_squares = <<>>
        /\ \E c \in Cells : board[c] # None /\ board[c] \notin DOMAIN players
        /\ pc[s] = "body"
        /\ req[s].type = "start_drawing"
        /\ board[req[s].cell] = None

\* The error messages of the game-logic errors.
GameLogicErrors ==
    {"Game is full", "Game has ended", "Invalid square coordinates",
     "Square is already owned",
     "Square is currently being drawn on by another player",
     "Square is not active for drawing",
     "You are not authorized to draw in this square",
     "You are not authorized to finish drawing in this square"}

\* C13: the step in which a handler decides on a game-logic error response
\* changes none of the connection table, the board, ActiveSquares, the
\* registry, the next player id, started, ended and winner.
C13_ErrorsChangeNothing ==
    [][\A s \in Sockets :
          (/\ pc[s] # "respond"
           /\ pc'[s] = "respond"
           /\ resp'[s] \in GameLogicErrors)
          => server_state' = server_state]_vars

\* A finish_drawing on a square that another player holds has just been
\* refused.
C13_Witness ==
    \E s \in Sockets :
        /\ pc[s] = "respond"
        /\ resp[s] = "You are not authorized to finish drawing in this square"
        /\ active_squares # <<>>

\* C14: a handler thread gets to its next receive only by the send of the
\* response to the request it received last (or by the accept of its
\* connection): every received request is answered before the next one is
\* read.
C14_OneResponsePerRequest ==
    [][\A s \in Sockets :
          (pc[s] # "recv" /\ pc'[s] = "recv")
          => pc[s] \in {"respond", "unaccepted", "done"}]_vars

\* C15: the response to a request that carries a request_id carries the
\* same request_id.
C15_ResponseEchoesToken ==
    \A s \in Sockets :
        (pc[s] = "respond" /\ request_id[s] # NoToken)
        => resp_request_id[s] = request_id[s]

\* Thread s has changed the state and has not sent the broadcast of the
\* change yet.
BroadcastPending(s) == pc[s] \in {"broadcast", "disc_broadcast"}

\* C16: the broadcasts are sent in the order of the changes: at most one
\* change at a time awaits its broadcast, and no other change is applied to
\* the state before that broadcast has been sent.
C16_BroadcastsInMutationOrder ==
    /\ [](\A s \in Sockets : \A t \in Sockets :
             (BroadcastPending(s) /\ BroadcastPending(t)) => s = t)
    /\ [][(\E s \in Sockets : BroadcastPending(s))
            => server_state' = server_state]_vars

\* A change awaits its broadcast while another thread waits for the lock
\* with a change of its own.
C16_Witness ==
    \E s \in Sockets : \E t \in Sockets :
        /\ pc[s] = "broadcast"
        /\ resp[s] = "square_captured"
        /\ pc[t] = "body"
        /\ req[t].type = "start_drawing"
        /\ lock = s

\* C17: every step that changes the game state or the connection table is
\* a handler's step which goes on to the broadcast of the change.
C17_MutationsAreBroadcast ==
    [][server_state' # server_state
        => \E s \in Sockets : ~BroadcastPending(s) /\ BroadcastPending(s)']_vars

\* C18: a thread whose broadcast could not be sent to a peer does not stop
\* short of the cleanup of that peer: no thread waits for the lock while
\* its list of failed peers holds a registered connection.
C18_FailedPeerIsCleanedUp ==
    \A s \in Sockets :
        pc[s] = "blocked" => \A f \in todo[s] : f \notin DOMAIN clients

\* C19: no thread is about to send a broadcast to a peer while it holds the
\* lock.
C19_NoSendUnderLock ==
    \A s \in Sockets :
        /\ (pc[s] = "broadcast"
            /\ broadcast_targets(broadcast_exclude(s, resp[s])) # {})
           => lock # s
        /\ (pc[s] = "disc_broadcast" /\ broadcast_targets(None) # {})
           => lock # s

\* C20: a frame with an unknown type or with a malformed payload is
\* answered with an error response that carries the request's request_id,
\* and the handler goes on to the next receive: the step after the receipt
\* of a malformed payload is the decision on an error response.
C20_ProtocolErrorKeepsOpen ==
    [][\A s \in Sockets :
          (pc[s] = "malformed" /\ pc'[s] # "malformed")
          => pc'[s] = "respond" /\ resp'[s] \in ErrorResponses]_vars

\* ------------------------------------------------------ client: actions
\* A caller calls send_message_and_wait_response(message, timeout), lines
\* 97-103: it returns None when the client is not connected, and otherwise
\* draws a token and writes it into the caller's dictionary.
call_send_message_and_wait_response(c) ==
    /\ cpc[c] \in {"idle", "done"}
    /\ Cardinality(issued) < MaxTokens
    /\ \E m \in Requests, t \in Timeouts :
          /\ original' = [original EXCEPT ![c] = m]
          /\ timeout' = [timeout EXCEPT ![c] = t]
          /\ IF ~connected
             THEN /\ cpc' = [cpc EXCEPT ![c] = "done"]
                  /\ returned' = [returned EXCEPT ![c] = NoneDict]
                  /\ message' = [message EXCEPT ![c] = m]
                  /\ call_request_id' = [call_request_id EXCEPT ![c] = None]
                  /\ UNCHANGED issued
             ELSE \E r \in uuid4 :
                  /\ cpc' = [cpc EXCEPT ![c] = "tagged"]
                  /\ returned' = [returned EXCEPT ![c] = NoDict]
                  /\ message' = [message EXCEPT ![c] = [m EXCEPT !.request_id = r]]
                  /\ call_request_id' = [call_request_id EXCEPT ![c] = r]
                  /\ issued' = issued \cup {r}
    /\ UNCHANGED <<connected, pending_requests, response_queue, now, wire,
                   inbox, server_sent, broadcasts, start_time, outside_client>>
    /\ UNCHANGED recorded

\* Lines 106-108: the request is recorded with the time of the clock.
track_request(c) ==
    /\ cpc[c] = "tagged"
    /\ pending_requests' = Put(pending_requests, call_request_id[c],
                               [message |-> message[c], timestamp |-> now])
    /\ recorded' = recorded \cup {call_request_id[c]}
    /\ cpc' = [cpc EXCEPT ![c] = "tracked"]
    /\ UNCHANGED <<connected, response_queue, issued, now, wire, inbox,
                   server_sent, broadcasts, message, original, call_request_id,
                   timeout, start_time, returned, outside_client>>

\* Mutant of ready_to_send: the frame is sent before the request is recorded.
ready_to_send_untracked(c) == cpc[c] \in {"tagged", "tracked"}

\* The point of the call where send_message runs (line 111).
ready_to_send(c) == cpc[c] = "tracked"

\* Lines 111-121: send_message writes the frame, and the wait begins; or it
\* fails, disconnects, and the call drops its entry and returns None.
send_message(c) ==
    /\ ready_to_send(c)
    /\ \/ /\ wire' = wire \cup {message[c]}
          /\ start_time' = [start_time EXCEPT ![c] = now]
          /\ cpc' = [cpc EXCEPT ![c] = "waiting"]
          /\ UNCHANGED <<connected, pending_requests, returned>>
       \/ /\ connected' = FALSE
          /\ pending_requests' =
                IF call_request_id[c] \in DOMAIN pending_requests
                THEN Del(pending_requests, call_request_id[c])
                ELSE pending_requests
          /\ returned' = [returned EXCEPT ![c] = NoneDict]
          /\ cpc' = [cpc EXCEPT ![c] = "done"]
          /\ UNCHANGED <<wire, start_time>>
    /\ UNCHANGED <<response_queue, issued, now, inbox, server_sent, broadcasts,
                   message, original, call_request_id, timeout, outside_client>>
    /\ UNCHANGED recorded

\* Lines 122-139: one test of the loop condition and, when it holds, one turn
\* of the loop: leave when the entry is gone, else purge the stale entries
\* and sleep.
wait_for_response(c) ==
    /\ cpc[c] = "waiting"
    /\ IF now - start_time[c] < timeout[c]
       THEN IF call_request_id[c] \notin DOMAIN pending_requests
            THEN /\ cpc' = [cpc EXCEPT ![c] = "timeout_check"]
                 /\ UNCHANGED pending_requests
            ELSE /\ expired_requests(now) # {}
                 /\ pending_requests' =
                       [r \in (DOMAIN pending_requests) \ expired_requests(now)
                           |-> pending_requests[r]]
                 /\ UNCHANGED cpc
       ELSE /\ cpc' = [cpc EXCEPT ![c] = "timeout_check"]
            /\ UNCHANGED pending_requests
    /\ UNCHANGED <<connected, response_queue, issued, now, wire, inbox,
                   server_sent, broadcasts, message, original, call_request_id,
                   timeout, start_time, returned, outside_client>>
    /\ UNCHANGED recorded

\* Lines 141-146: after the loop, an entry that is still pending is dropped
\* and the call returns None.
timeout_check(c) ==
    /\ cpc[c] = "timeout_check"
    /\ IF call_request_id[c] \in DOMAIN pending_requests
       THEN /\ pending_requests' = Del(pending_requests, call_request_id[c])
            /\ returned' = [returned EXCEPT ![c] = NoneDict]
            /\ cpc' = [cpc EXCEPT ![c] = "done"]
       ELSE /\ cpc' = [cpc EXCEPT ![c] = "get"]
            /\ UNCHANGED <<pending_requests, returned>>
    /\ UNCHANGED <<connected, response_queue, issued, now, wire, inbox,
                   server_sent, broadcasts, message, original, call_request_id,
                   timeout, start_time, outside_client>>
    /\ UNCHANGED recorded

\* Lines 148-152: the call returns the head of the response queue, or, when
\* the queue is empty, a success message of its own making.
get_response(c) ==
    /\ cpc[c] = "get"
    /\ IF response_queue # <<>>
       THEN /\ returned' = [returned EXCEPT ![c] = Head(response_queue)]
            /\ response_queue' = Tail(response_queue)
       ELSE /\ returned' = [returned EXCEPT ![c] = assumed_success(call_request_id[c])]
            /\ UNCHANGED response_queue
    /\ cpc' = [cpc EXCEPT ![c] = "done"]
    /\ UNCHANGED <<connected, pending_requests, issued, now, wire, inbox,
                   server_sent, broadcasts, message, original, call_request_id,
                   timeout, start_time, outside_client>>
    /\ UNCHANGED recorded

\* handle_incoming_message (176-190), run by the receive thread for the next
\* message of the connection: a message whose request_id is pending is put
\* into the response queue and its entry deleted; every other message goes
\* to handle_broadcast_message.
handle_incoming_message ==
    /\ inbox # <<>>
    /\ inbox' = Tail(inbox)
    /\ IF Head(inbox).request_id # None
          /\ Head(inbox).request_id \in DOMAIN pending_requests
       THEN /\ pending_requests' = Del(pending_requests, Head(inbox).request_id)
            /\ response_queue' = Append(response_queue, Head(inbox))
            /\ UNCHANGED broadcasts
       ELSE /\ broadcasts' = broadcasts + 1
            /\ UNCHANGED <<pending_requests, response_queue>>
    /\ UNCHANGED <<connected, issued, now, wire, server_sent, message, original,
                   call_request_id, timeout, start_time, returned, cpc,
                   outside_client>>
    /\ UNCHANGED recorded

\* The server answers a request it has received (process_message copies the
\* request_id of the request into the response, server.py:109-110); it
\* answers each request at most once.
server_response ==
    /\ \E m \in wire, ty \in ResponseTypes :
          /\ \A x \in server_sent : x.request_id # m.request_id
          /\ inbox' = Append(inbox, [type |-> ty, request_id |-> m.request_id])
          /\ server_sent' = server_sent \cup {[type |-> ty, request_id |-> m.request_id]}
    /\ UNCHANGED <<connected, pending_requests, response_queue, issued, now,
                   wire, broadcasts, message, original, call_request_id, timeout,
                   start_time, returned, cpc, outside_client>>
    /\ UNCHANGED recorded

\* The server sends a broadcast (broadcast_message, server.py:342-357), which
\* carries no request_id.
server_broadcast ==
    /\ Len(inbox) + broadcasts < MaxBroadcasts
    /\ inbox' = Append(inbox, [type |-> "player_joined", request_id |-> None])
    /\ server_sent' = server_sent \cup {[type |-> "player_joined", request_id |-> None]}
    /\ UNCHANGED <<connected, pending_requests, response_queue, issued, now,
                   wire, broadcasts, message, original, call_request_id, timeout,
                   start_time, returned, cpc, outside_client>>
    /\ UNCHANGED recorded

\* Time passes (time.sleep(0.1), and the time the other steps take).
tick ==
    /\ now < MaxTime
    /\ now' = now + 1
    /\ UNCHANGED <<connected, pending_requests, response_queue, issued, wire,
                   inbox, server_sent, broadcasts, message, original,
                   call_request_id, timeout, start_time, returned, cpc,
                   outside_client>>
    /\ UNCHANGED recorded

ClientNext ==
    \/ \E c \in Callers :
          \/ call_send_message_and_wait_response(c)
          \/ track_request(c)
          \/ send_message(c)
          \/ wait_for_response(c)
          \/ timeout_check(c)
          \/ get_response(c)
    \/ handle_incoming_message
    \/ server_response
    \/ server_broadcast
    \/ tick

\* One client program, its callers, its receive thread and its connection.
SpecClient == Init /\ [][ClientNext]_vars

\* ------------------------------------------------------ capture decision
\* Any coverage percentage of 0..100 is given to both.
CaptureInit ==
    /\ ServerInit /\ TransportInit /\ ClientInit /\ DrawingIdle /\ GuiIdle
    /\ cov \in CoveragePercentages
    /\ protocol_capture = "none"
    /\ server_capture = "none"

\* MessageProtocol.is_successful_capture(cov) is called.
call_is_successful_capture ==
    /\ protocol_capture = "none"
    /\ protocol_capture' = Bool(is_successful_capture(cov))
    /\ UNCHANGED <<cov, server_capture, outside_capture>>

\* handle_finish_drawing evaluates success = coverage_percentage >= 50.0.
server_capture_decision ==
    /\ server_capture = "none"
    /\ server_capture' = Bool(is_success(cov))
    /\ UNCHANGED <<cov, protocol_capture, outside_capture>>

CaptureNext ==
    \/ call_is_successful_capture
    \/ server_capture_decision

\* The two capture decisions applied to one coverage percentage.
SpecCapture == CaptureInit /\ [][CaptureNext]_vars

\* ------------------------------------------- client drawing state (client.py)
\* The connection of the client and the player id the server gave it.
DrawingSocket == 1

\* The state after the client's join: the server has bound the connection
\* to player 1 and its handler thread waits for the next frame.
DrawingInit ==
    /\ clients = (DrawingSocket :> 1)
    /\ board = [c \in Cells |-> None]
    /\ active_squares = <<>>
    /\ players = (1 :> [color |-> 0, score |-> 0])
    /\ game_started = TRUE
    /\ game_ended = FALSE
    /\ winner = None
    /\ next_player_id = 2
    /\ lock = None
    /\ pc = [s \in Sockets |-> IF s = DrawingSocket THEN "recv" ELSE "unaccepted"]
    /\ req = [s \in Sockets |-> NoReq]
    /\ player_id = [s \in Sockets |-> None]
    /\ resp = [s \in Sockets |-> "none"]
    /\ todo = [s \in Sockets |-> {}]
    /\ dtarget = [s \in Sockets |-> None]
    /\ closed = [s \in Sockets |-> FALSE]
    /\ join_log = <<1>>
    /\ request_id = [s \in Sockets |-> NoToken]
    /\ resp_request_id = [s \in Sockets |-> NoToken]
    /\ state_dict = [s \in Sockets |-> NoState]
    /\ TransportInit /\ ClientInit /\ CaptureIdle /\ DrawingIdle /\ GuiIdle

\* What the steps of the client's drawing calls and of the server's
\* handling of them leave alone.
outside_drawing ==
    <<clients, game_started, next_player_id, lock, pc, req, player_id, resp,
      todo, dtarget, closed, join_log, request_id, resp_request_id,
      state_dict, transport_vars, client_vars, capture_vars, gui_vars>>

\* The server's game state that handle_start_drawing and
\* handle_finish_drawing write.
drawing_game_state == <<board, active_squares, players, game_ended, winner>>

\* start_drawing_in_square(row, col): False at once for coordinates off the
\* board and while drawing_active; else the start_drawing request is sent
\* and the call waits in send_message_and_wait_response.
call_start_drawing_in_square(cell) ==
    /\ draw_call = NoCall
    /\ draw_calls < MaxCalls
    /\ draw_calls' = draw_calls + 1
    /\ IF ~validate_coordinates(cell) \/ drawing_active
       THEN UNCHANGED <<draw_call, draw_requests>>
       ELSE /\ draw_call' = [op |-> "start_drawing", cell |-> cell,
                             id |-> draw_calls + 1]
            /\ draw_requests' =
                   Append(draw_requests,
                          [type |-> "start_drawing", cell |-> cell,
                           coverage |-> 0, id |-> draw_calls + 1])
    /\ UNCHANGED <<drawing_active, current_square, draw_responses,
                   drawing_game_state, outside_drawing>>

\* finish_drawing(coverage_percentage): False at once when the client is
\* not drawing; else the finish_drawing request for current_square is sent
\* and the call waits in send_message_and_wait_response.
call_finish_drawing(coverage) ==
    /\ draw_call = NoCall
    /\ draw_calls < MaxCalls
    /\ draw_calls' = draw_calls + 1
    /\ IF ~drawing_active \/ current_square = NoSquare
       THEN UNCHANGED <<draw_call, draw_requests>>
       ELSE /\ draw_call' = [op |-> "finish_drawing", cell |-> current_square,
                             id |-> draw_calls + 1]
            /\ draw_requests' =
                   Append(draw_requests,
                          [type |-> "finish_drawing", cell |-> current_square,
                           coverage |-> coverage, id |-> draw_calls + 1])
    /\ UNCHANGED <<drawing_active, current_square, draw_responses,
                   drawing_game_state, outside_drawing>>

\* The response the server sends for the request r: its type and the
\* request_id process_message copies from the request.
draw_response(r, type) == [type |-> type, id |-> r.id]

\* The handler thread of the client's connection receives the next request
\* and handles it: handle_start_drawing.
serve_start_drawing ==
    /\ draw_requests # <<>>
    /\ Head(draw_requests).type = "start_drawing"
    /\ LET r == Head(draw_requests)
           pid == clients[DrawingSocket]
       IN  /\ draw_requests' = Tail(draw_requests)
           /\ IF ~validate_coordinates(r.cell) \/ SquareOwned(r.cell)
                 \/ LockedByOther(r.cell, pid)
              THEN /\ draw_responses' =
                         Append(draw_responses, draw_response(r, "error"))
                   /\ UNCHANGED active_squares
              ELSE /\ active_squares' = Put(active_squares, r.cell, pid)
                   /\ draw_responses' =
                         Append(draw_responses,
                                draw_response(r, "start_drawing_success"))
    /\ UNCHANGED <<board, players, game_ended, winner>>
    /\ UNCHANGED <<drawing_active, current_square, draw_call, draw_calls,
                   outside_drawing>>

\* The handler thread of the client's connection receives the next request
\* and handles it: handle_finish_drawing.
serve_finish_drawing ==
    /\ draw_requests # <<>>
    /\ Head(draw_requests).type = "finish_drawing"
    /\ LET r == Head(draw_requests)
           pid == clients[DrawingSocket]
           success == is_success(r.coverage)
       IN  /\ draw_requests' = Tail(draw_requests)
           /\ IF r.cell \notin DOMAIN active_squares
              THEN /\ draw_responses' =
                         Append(draw_responses, draw_response(r, "error"))
                   /\ UNCHANGED drawing_game_state
              ELSE IF active_squares[r.cell] # pid
              THEN /\ draw_responses' =
                         Append(draw_responses, draw_response(r, "error"))
                   /\ UNCHANGED drawing_game_state
              ELSE IF ~success
              THEN /\ active_squares' = active_after_finish(r.cell, success)
                   /\ draw_responses' =
                         Append(draw_responses,
                                draw_response(r, "square_failed"))
                   /\ UNCHANGED <<board, players, game_ended, winner>>
              ELSE LET board1 == capture_board(r.cell, pid)
                       players1 == [players EXCEPT ![pid].score = @ + 1]
                       game_over == check_game_over(board1)
                   IN  /\ active_squares' = active_after_finish(r.cell, success)
                       /\ board' = board1
                       /\ players' = players1
                       /\ game_ended' = IF game_over THEN TRUE ELSE game_ended
                       /\ winner' = IF game_over
                                    THEN calculate_winner(players1)[1]
                                    ELSE winner
                       /\ draw_responses' =
                             Append(draw_responses,
                                    draw_response(r, "square_captured"))
    /\ UNCHANGED <<drawing_active, current_square, draw_call, draw_calls,
                   outside_drawing>>

\* The receive thread takes the next message of the server.  A response to
\* the request of the waiting call is handed to the call, which returns:
\* start_drawing_in_square sets drawing_active and current_square on
\* start_drawing_success, finish_drawing clears them on square_captured and
\* square_failed, and both return False on anything else.  A response whose
\* request_id is not in pending_requests any more goes to
\* handle_broadcast_message, which changes nothing of the drawing state.
receive_draw_response ==
    /\ draw_responses # <<>>
    /\ draw_responses' = Tail(draw_responses)
    /\ LET m == Head(draw_responses)
       IN  IF draw_call = NoCall \/ m.id # draw_call.id
           THEN UNCHANGED <<drawing_active, current_square, draw_call>>
           ELSE /\ draw_call' = NoCall
                /\ IF draw_call.op = "start_drawing"
                      /\ m.type = "start_drawing_success"
                   THEN /\ drawing_active' = TRUE
                        /\ current_square' = draw_call.cell
                   ELSE IF draw_call.op = "finish_drawing"
                           /\ m.type \in {"square_captured", "square_failed"}
                   THEN /\ drawing_active' = FALSE
                        /\ current_square' = NoSquare
                   ELSE UNCHANGED <<drawing_active, current_square>>
    /\ UNCHANGED <<draw_requests, draw_calls, drawing_game_state,
                   outside_drawing>>

\* send_message_and_wait_response gives up after request_timeout seconds,
\* removes the request from pending_requests and returns None: the call
\* returns False and leaves drawing_active and current_square as they are.
draw_response_timeout ==
    /\ draw_call # NoCall
    /\ draw_call' = NoCall
    /\ UNCHANGED <<drawing_active, current_square, draw_requests,
                   draw_responses, draw_calls, drawing_game_state,
                   outside_drawing>>

DrawingNext ==
    \/ \E cell \in ReqCells : call_start_drawing_in_square(cell)
    \/ \E coverage \in Coverages : call_finish_drawing(coverage)
    \/ serve_start_drawing
    \/ serve_finish_drawing
    \/ receive_draw_response
    \/ draw_response_timeout

\* One joined client that starts and finishes drawings, and the server's
\* handler of its connection.
SpecDrawing == DrawingInit /\ [][DrawingNext]_vars

\* ------------------------------------------------ GUI server (server_gui.py)
\* x // square_size and y // square_size of the positions a message can
\* carry: inside the grid of squares, between the grid and BOARD_SIZE, and
\* beyond BOARD_SIZE.
GridPositions == {0, GUI_COLS - 1, GUI_COLS, BOARD_SIZE}

\* self.squares[row][col] raises IndexError
IndexError == <<"IndexError">>

\* GameBoard.get_square_at, on col = x // square_size, row = y // square_size
get_square_at(col, row) ==
    IF 0 <= col /\ col < BOARD_SIZE /\ 0 <= row /\ row < BOARD_SIZE
    THEN IF row < GUI_ROWS /\ col < GUI_COLS THEN <<row, col>> ELSE IndexError
    ELSE NoSquare

\* GameBoard.is_game_over
is_game_over == \A q \in GuiSquares : is_taken[q]

\* The handler thread of p leaves handle_client: an exception was raised
\* inside the try (`except Exception as _: return`), or the game is over.
gui_return(p) == gui_alive' = [gui_alive EXCEPT ![p] = "returned"]

\* start_server: accept() and the start of the handle_client thread.
gui_accept(p) ==
    /\ gui_alive[p] = "unaccepted"
    /\ gui_alive' = [gui_alive EXCEPT ![p] = "running"]
    /\ UNCHANGED <<square_lock, is_taken, gui_players, gui_current,
                   gui_result, gui_sent, outside_gui>>

\* recv_message_frame returns None for a closed connection: message.get
\* raises AttributeError and the handler returns.  The Player keeps its
\* current_square and the square's lock is not released.
gui_recv_none(p) ==
    /\ gui_alive[p] = "running"
    /\ gui_return(p)
    /\ UNCHANGED <<square_lock, is_taken, gui_players, gui_current,
                   gui_result, gui_sent, outside_gui>>

\* new_player: self.players[client_socket] = Player(color)
new_player(p) ==
    /\ gui_alive[p] = "running"
    /\ gui_players' = gui_players \cup {p}
    /\ gui_current' = [gui_current EXCEPT ![p] = NoSquare]
    /\ gui_result' = [gui_result EXCEPT ![p] = "none"]
    /\ IF is_game_over THEN gui_return(p) ELSE UNCHANGED gui_alive
    /\ UNCHANGED <<square_lock, is_taken, gui_sent, outside_gui>>

\* Player.start_drawing(square, x, y): what it returns.
\* square.lock.acquire(blocking=False) is True when the lock was free, and
\* has then taken it.
start_drawing_result(square) ==
    IF square = NoSquare THEN "square_locked_on"
    ELSE IF ~square_lock[square] THEN "square_locked_on"
    ELSE IF is_taken[square] THEN "square_taken"
    ELSE "None"

\* start_drawing_gui: get_square_at, Player.start_drawing, and the
\* square_lock_on frame when the result is 'square_lock_on'.
start_drawing_gui(p, col, row) ==
    /\ gui_alive[p] = "running"
    /\ LET square == get_square_at(col, row)
           result == start_drawing_result(square)
       IN  IF square = IndexError \/ p \notin gui_players
           THEN /\ gui_return(p)
                /\ UNCHANGED <<square_lock, gui_current, gui_result, gui_sent>>
           ELSE /\ square_lock' =
                      IF square # NoSquare
                      THEN [square_lock EXCEPT ![square] = TRUE]
                      ELSE square_lock
                /\ gui_current' =
                      IF result = "None"
                      THEN [gui_current EXCEPT ![p] = square]
                      ELSE gui_current
                /\ gui_result' = [gui_result EXCEPT ![p] = result]
                /\ gui_sent' =
                      IF result = "square_lock_on"
                      THEN [gui_sent EXCEPT ![p] = TRUE]
                      ELSE gui_sent
                /\ IF is_game_over THEN gui_return(p) ELSE UNCHANGED gui_alive
    /\ UNCHANGED <<is_taken, gui_players, outside_gui>>

\* stop_drawing_gui: get_square_at, then Player.stop_drawing, which
\* releases the lock of current_square (RuntimeError when it is not held)
\* and clears current_square.
stop_drawing_gui(p, col, row) ==
    /\ gui_alive[p] = "running"
    /\ LET square == get_square_at(col, row)
       IN  IF square = IndexError \/ p \notin gui_players
           THEN /\ gui_return(p)
                /\ UNCHANGED <<square_lock, gui_current>>
           ELSE IF gui_current[p] = NoSquare
           THEN /\ IF is_game_over THEN gui_return(p) ELSE UNCHANGED gui_alive
                /\ UNCHANGED <<square_lock, gui_current>>
           ELSE IF ~square_lock[gui_current[p]]
           THEN /\ gui_return(p)
                /\ UNCHANGED <<square_lock, gui_current>>
           ELSE /\ square_lock' = [square_lock EXCEPT ![gui_current[p]] = FALSE]
                /\ gui_current' = [gui_current EXCEPT ![p] = NoSquare]
                /\ IF is_game_over THEN gui_return(p) ELSE UNCHANGED gui_alive
    /\ UNCHANGED <<is_taken, gui_players, gui_result, gui_sent, outside_gui>>

\* filled_drawing_gui: self.players[client_socket].stop_drawing_server_marked()
\* raises KeyError for a socket without a player and AttributeError
\* otherwise (Player has no such method); the handler returns.
filled_drawing_gui(p) ==
    /\ gui_alive[p] = "running"
    /\ gui_return(p)
    /\ UNCHANGED <<square_lock, is_taken, gui_players, gui_current,
                   gui_result, gui_sent, outside_gui>>

GuiNext ==
    \E p \in Sockets :
        \/ gui_accept(p)
        \/ gui_recv_none(p)
        \/ new_player(p)
        \/ \E col \in GridPositions : \E row \in GridPositions :
              start_drawing_gui(p, col, row)
        \/ \E col \in GridPositions : \E row \in GridPositions :
              stop_drawing_gui(p, col, row)
        \/ filled_drawing_gui(p)

\* The GUI server with its handler threads.
SpecGui == Init /\ [][GuiNext]_vars

\* ------------------------------------------------------------ C21 .. C30
\* A call of send_message_frame.
SendStep == frames' # frames /\ message_dict' # NoMessage

\* The first read of a call of recv_message_frame.
HeaderStep == rpc = "idle" /\ rpc' # "idle"

\* C21: the frame limit is enforced on both sides. send_message_frame raises
\* and writes no byte when the encoded payload is longer than
\* MAX_MESSAGE_SIZE, and otherwise writes the prefix and the payload;
\* recv_message_frame, once it has the 4 bytes of the prefix, raises when the
\* decoded length is greater than MAX_MESSAGE_SIZE, having taken no payload
\* byte from the stream, and otherwise goes on to read the payload. A payload
\* of exactly MAX_MESSAGE_SIZE bytes is accepted by both.
C21_FrameLimit ==
    [][/\ SendStep =>
             IF Len(dumps(message_dict')) > MAX_MESSAGE_SIZE
             THEN send_result' = "raised" /\ stream' = stream
             ELSE /\ send_result' = "sent"
                  /\ stream' = stream \o pack(Len(dumps(message_dict')))
                                      \o dumps(message_dict')
       /\ (HeaderStep /\ Len(raw_len') = 4) =>
             IF unpack(raw_len') > MAX_MESSAGE_SIZE
             THEN /\ rpc' = "raised"
                  /\ data' = <<>>
                  /\ stream' = SubSeq(stream, 5, Len(stream))
             ELSE rpc' = "payload"]_vars

\* A payload of exactly MAX_MESSAGE_SIZE bytes has been sent and received.
C21_Witness ==
    /\ rpc = "returned"
    /\ in_flight # <<>>
    /\ Head(in_flight) \in Messages
    /\ Len(dumps(Head(in_flight))) = MAX_MESSAGE_SIZE
    /\ Len(data) = MAX_MESSAGE_SIZE
    /\ recv_result # NoneResult

\* C22: framing round-trips: whenever a call of recv_message_frame ends on a
\* frame written by send_message_frame, it returns a message equal to the
\* one that was sent, however the stream splits the bytes.
C22_FramingRoundTrips ==
    (rpc = "returned" /\ in_flight # <<>> /\ Head(in_flight) \in Messages)
        => recv_result = Head(in_flight)

\* The callers that are inside send_message_and_wait_response with a token.
InCall == {c \in Callers : cpc[c] \in {"tagged", "tracked", "waiting", "timeout_check", "get"}}

\* A call of caller c has returned a message.
ReturnedMessage(c) == cpc[c] = "done" /\ returned[c] \notin {NoDict, NoneDict}

\* C23: the message send_message_and_wait_response returns for a request
\* carries the token of that request, also when two requests of different
\* threads are in flight at once.
C23_ResponseCarriesOwnToken ==
    \A c \in Callers :
        ReturnedMessage(c) => returned[c].request_id = call_request_id[c]

\* C24: every request is tagged with a token that no pending entry and no
\* other call in progress has, the tagging leaves the type of the request as
\* the caller gave it, and when the frame of a request is sent its token is
\* already recorded in pending_requests and, unless a purge has taken it out
\* again, is there with the request as sent; so every response that comes
\* is for a token that has been recorded.
C24_TaggedAndTrackedBeforeSend ==
    [][/\ \A c \in Callers :
             (cpc[c] \in {"idle", "done"} /\ cpc'[c] = "tagged") =>
                /\ call_request_id'[c] \notin DOMAIN pending_requests
                /\ \A d \in InCall \ {c} :
                       call_request_id'[c] # call_request_id[d]
                /\ message'[c].request_id = call_request_id'[c]
                /\ message'[c].type = original'[c].type
       /\ \A m \in wire' \ wire :
             /\ m.request_id \in recorded
             /\ m.request_id \in DOMAIN pending_requests =>
                   pending_requests[m.request_id].message = m
       /\ \A i \in 1..Len(inbox') :
             inbox'[i].request_id # None => inbox'[i].request_id \in recorded']_vars

\* Two tagged requests are on the wire, both tracked.
C24_Witness ==
    \E c, d \in Callers :
        /\ c # d
        /\ cpc[c] = "waiting"
        /\ cpc[d] = "waiting"
        /\ {message[c], message[d]} \subseteq wire
        /\ {call_request_id[c], call_request_id[d]} \subseteq DOMAIN pending_requests

\* C25: a call returns None or a message the server has sent, whatever the
\* timeout, also a timeout equal to or longer than the staleness window.
C25_ReturnsNoneOrServerMessage ==
    \A c \in Callers :
        cpc[c] = "done" => (returned[c] = NoneDict \/ returned[c] \in server_sent)

\* C26: the game state that a game_state or join_success response carries
\* when it is sent is the state of the store at the instant it was taken: no
\* change made by another handler after that instant shows up in it.
C26_SnapshotIsConsistent ==
    \A s \in Sockets :
        (pc[s] = "respond" /\ resp[s] \in StateResponses)
            => serialised = state_dict[s]

\* The responses of a join, a start_drawing and a finish_drawing that was
\* not refused.
AcceptedResponses ==
    {"join_success", "start_drawing_success", "square_captured", "square_failed"}

\* The board, the locks, the flags and the winner stay, and no join,
\* start_drawing or finish_drawing is accepted.
FrozenOnceEnded ==
    /\ game_ended'
    /\ board' = board
    /\ active_squares' = active_squares
    /\ game_started' = game_started
    /\ winner' = winner
    /\ \A s \in Sockets :
          resp'[s] # resp[s] => resp'[s] \notin AcceptedResponses

C28_RegistryMatchesConnections ==
    /\ DOMAIN players = {clients[s] : s \in DOMAIN clients}
    /\ \A s, t \in DOMAIN clients : clients[s] = clients[t] => s = t

\* C29: a start_drawing on a square by the player that holds it is answered
\* with start_drawing_success and leaves the board, ActiveSquares, the
\* player registry, the connection table and the flags as they were.
C29_StartDrawingIdempotent ==
    [][\A s \in Sockets :
          (/\ BodyStep(s, "start_drawing")
           /\ req[s].cell \in DOMAIN active_squares
           /\ active_squares[req[s].cell] = player_id[s])
            => /\ resp'[s] = "start_drawing_success"
               /\ server_state' = server_state]_vars

\* The handler of a start_drawing is at its locked body, and the player of
\* the request holds the square it asks for.
C29_Witness ==
    \E s \in Sockets :
        /\ pc[s] = "body"
        /\ req[s].type = "start_drawing"
        /\ req[s].cell \in DOMAIN active_squares
        /\ active_squares[req[s].cell] = player_id[s]
        /\ lock = None

\* Thread t takes a step of the processing of a drawing_data request: the
\* test under the lock, the sends of the drawing_update, or the
\* disconnect_client calls broadcast_message makes for the failed sends.
DrawingDataStep(t) ==
    /\ pc'[t] # pc[t]
    /\ \/ pc[t] = "body" /\ req[t].type = "drawing_data"
       \/ pc[t] = "drawing_update"
       \/ /\ pc[t] \in {"disc_check", "disc_body", "disc_broadcast", "disc_close"}
          /\ dtarget[t] # t

\* C30: a drawing_data request never changes the game state: the board,
\* ActiveSquares, the players with their scores, and the flags are the same
\* before and after each of its steps.
C30_DrawingDataChangesNothing ==
    [][\A t \in Sockets : DrawingDataStep(t) => game_state' = game_state]_vars

\* ------------------------------------------------------------ C31 .. C40
\* C31: for every coverage percentage of 0..100 is_successful_capture
\* returns True exactly when the coverage is at least 50, and so agrees with
\* the capture decision of the server.
C31_HelperAgreesWithServer ==
    /\ protocol_capture # "none" =>
          (protocol_capture = "True" <=> cov >= CAPTURE_THRESHOLD)
    /\ (protocol_capture # "none" /\ server_capture # "none") =>
          protocol_capture = server_capture

\* Thread t waits for self.lock, which it holds itself: it never goes on and
\* never releases the lock.
SelfDeadlocked(t) == pc[t] = "blocked" /\ lock = t

\* The transport of the joined connection s has failed and its handler
\* thread is in its finally clause, at the `with self.lock:` of
\* disconnect_client(client_socket).
CleanupWaits(s) ==
    /\ s \in DOMAIN clients
    /\ pc[s] = "disc_body"
    /\ dtarget[s] = s

\* C32: every joined connection whose transport fails is cleaned up in the
\* end, while the other threads keep running: the cleanup of a failed
\* connection never waits for a lock whose holder waits for the lock too
\* and so never releases it.
C32_FailedConnectionIsCleanedUp ==
    \A s \in Sockets :
        CleanupWaits(s) => ~(\E t \in Sockets : SelfDeadlocked(t))

C34_NoDeadlockOnLock ==
    \A t \in Sockets : lock = t => pc[t] # "blocked"

\* C35: no lock on a square is orphaned: every entry of ActiveSquares is
\* held by a player id of the registry that a connection of the connection
\* table is bound to.
C35_NoOrphanedSquareLock ==
    \A c \in DOMAIN active_squares :
        /\ active_squares[c] \in DOMAIN players
        /\ \E s \in DOMAIN clients : clients[s] = active_squares[c]

\* Thread t is at a send_message_frame on the socket s: the response of its
\* own handler, or a frame of a broadcast it makes.
WritesTo(t, s) ==
    \/ t = s /\ pc[t] = "respond"
    \/ /\ pc[t] = "broadcast"
       /\ s \in broadcast_targets(broadcast_exclude(t, resp[t]))
    \/ pc[t] = "drawing_update" /\ s \in broadcast_targets(t)
    \/ pc[t] = "disc_broadcast" /\ s \in broadcast_targets(None)

\* C36: at most one thread of the server is at the write of a frame to a
\* given connection at any time.
C36_OneWriterPerConnection ==
    \A s \in Sockets : \A t, u \in Sockets :
        (WritesTo(t, s) /\ WritesTo(u, s)) => t = u

\* C37: disconnect_client takes effect at most once for a connection and
\* its second call is a no-op that raises nothing: the body under the lock
\* never runs for a socket that is not in self.clients (a KeyError), every
\* step removes at most one player, and a player_left broadcast follows the
\* removal of a connection only.
C37_DisconnectOnceWithoutError ==
    [][\A t \in Sockets :
          /\ (pc[t] = "disc_body" /\ pc'[t] # "disc_body")
                => dtarget[t] \in DOMAIN clients
          /\ (pc[t] # "disc_broadcast" /\ pc'[t] = "disc_broadcast")
                => /\ dtarget[t] \in DOMAIN clients
                   /\ clients' = Del(clients, dtarget[t])
          /\ Cardinality((DOMAIN players) \ DOMAIN players') <= 1]_vars

\* The ids that own a cell of the board, in the registry or not.
board_owners == {board[c] : c \in Cells} \ {None}

\* C38: when the game ends with a winner, the winner owns strictly more
\* cells of the board than any other id on the board, the ids of players
\* that disconnected before the end included; when the highest count is
\* tied the winner is None.
C38_WinnerOwnsMostCells ==
    game_ended =>
        IF winner # None
        THEN \A p \in board_owners \ {winner} :
                 cells_owned(winner) > cells_owned(p)
        ELSE ~(\E p \in board_owners :
                 \A q \in board_owners \ {p} : cells_owned(p) > cells_owned(q))

\* C39: the client's drawing state follows the server's lock: whenever the
\* client has drawing_active with current_square = (row, col), and none of
\* its calls is waiting for a response, ActiveSquares holds (row, col) for
\* the client's player.
C39_ClientDrawingFollowsServerLock ==
    (drawing_active /\ draw_call = NoCall)
        => /\ current_square \in DOMAIN active_squares
           /\ active_squares[current_square] = clients[DrawingSocket]

\* C40: the lock of a square of the GUI server gives mutual exclusion and
\* follows the drawer: a square whose lock is held is the current square of
\* a registered player (a start on a free square makes the sender its
\* drawer), and no two players have the same current square.
C40_SquareLockIsExclusive ==
    /\ \A q \in GuiSquares :
          square_lock[q] => \E p \in gui_players : gui_current[p] = q
    /\ \A p, r \in gui_players :
          (p # r /\ gui_current[p] # NoSquare) => gui_current[p] # gui_current[r]

====
